---- MODULE Spec2Model ----
(***************************************************************************)
(* Model of the lexicon-based sentiment pipeline:                          *)
(*   preprocessing.py       TextPreprocessor (clean_text, tokenize,        *)
(*                          remove_stopwords, lemmatize_tokens, preprocess)*)
(*   feature_extraction.py  FeatureExtractor (load_lexicon,                *)
(*                          calculate_sentiment_score, detect_negation,    *)
(*                          extract_ngrams, extract_features)              *)
(*   sentiment_analysis.py  SentimentAnalyzer (analyze_sentiment)          *)
(*                                                                         *)
(* A Python str is a sequence of one-character strings.  A Python float is *)
(* an exact rational [num, den] in lowest terms with den > 0; the rounding *)
(* of binary floating point is not modelled.                               *)
(***************************************************************************)
EXTENDS Integers, Sequences, FiniteSets, TLC

VARIABLES
    positive_words,      \* FeatureExtractor.positive_words: dict word -> score
    negative_words,      \* FeatureExtractor.negative_words: dict word -> score
    stop_words,          \* TextPreprocessor.stop_words
    positive_threshold,  \* SentimentAnalyzer.positive_threshold
    negative_threshold,  \* SentimentAnalyzer.negative_threshold
    request,             \* text argument of the pending or last call
    pending,             \* a call of analyze_sentiment is to be served
    locals,              \* locals of the last analyze_sentiment call
    result,              \* dict returned by the last analyze_sentiment call
    first_result,        \* history: probe text -> result of its first call
    repeated,            \* history: the last call repeated an earlier text
    clean_arg,           \* argument of the last clean_text call
    clean_ret,           \* value returned by the last clean_text call
    clean_calls,         \* number of clean_text calls made
    token_list,          \* token list given to calculate_sentiment_score
    added,               \* the token added last to the token list
    feats,               \* calculate_sentiment_score(tokens)
    prev_feats,          \* calculate_sentiment_score before the addition
    lexicon_file,        \* the file at lexicon_path: [exists, lines]
    constructed,         \* SentimentAnalyzer.__init__ has returned
    threads,             \* per thread: the frame of its analyze_sentiment call
    dataset,             \* rows of the CSV file given to the batch analysis
    results_df,          \* rows of the dataframe the batch analysis returns
    batch_status,        \* "idle", or how the batch analysis ended
    verdict,             \* features and classification of token_list
    prev_verdict,        \* the same before the replacement of a token
    prev_tokens,         \* token_list before the replacement of a token
    replaced,            \* position of the token replaced last, 0 if none
    stopword_ret,        \* what remove_stopwords(token_list) returned
    features_ret,        \* what extract_features(token_list, ...) returned
    reviews_data,        \* reviews_data of generate_dataset
    gen_pc,              \* position of generate_dataset
    generated,           \* history: reviews_data before random.shuffle
    order,               \* history: the order random.shuffle put the rows in
    sessions,            \* per browser session: its state and its position
    last_call            \* history: the last call that wrote the dataset file

analyzer_vars ==
    << positive_words, negative_words, stop_words,
       positive_threshold, negative_threshold >>

call_vars == << request, pending, locals, result, first_result, repeated >>

clean_vars == << clean_arg, clean_ret, clean_calls >>

score_vars == << token_list, added, feats, prev_feats >>

load_vars == << lexicon_file, constructed >>

batch_vars == << dataset, results_df, batch_status >>

negation_vars == << verdict, prev_verdict, prev_tokens, replaced >>

\* The variables that the analyzer, one call, clean_text and
\* calculate_sentiment_score alone do not touch
token_vars == << stopword_ret, features_ret >>

generate_vars == << reviews_data, gen_pc, generated, order >>

\* The variables of the token functions alone, of generate_dataset and of
\* the sessions of the web application
web_vars == << sessions, last_call >>

late_vars == << token_vars, generate_vars, web_vars >>

other_vars == << load_vars, threads, batch_vars, negation_vars, late_vars >>

vars == << analyzer_vars, call_vars, clean_vars, score_vars, other_vars >>

\* ------------------------------------------------------------------------
\* Bounds of the model
\* ------------------------------------------------------------------------
MaxCleanLen == 5

MaxTextLen == 4

MaxLexLines == 2

MaxTokens == 3

\* Threads that call analyze_sentiment on the shared analyzer
MaxThreads == 2

\* Rows of the dataset given to the batch analysis
MaxRows == 2

\* Strides of the draws of random.choice in generate_dataset
MaxStride == 2

\* Shifts of the orders that random.shuffle produces
MaxShift == 1

\* Entries that the histories of the sessions hold together
MaxHistory == 2

\* Largest Review_ID a save assigns
MaxId == 4

\* ------------------------------------------------------------------------
\* generate_reviews.py: the numbers of rows of the three loops
\* ------------------------------------------------------------------------
PositiveRows == 1500

NegativeRows == 1050

NeutralRows == 450

\* ------------------------------------------------------------------------
\* Numbers: Python floats as exact rationals
\* ------------------------------------------------------------------------
Abs(n) == IF n < 0 THEN -n ELSE n

RECURSIVE GCD(_, _)
GCD(a, b) == IF b = 0 THEN a ELSE GCD(b, a % b)

Rat(n, d) ==
    LET g == GCD(Abs(n), d)
    IN  [num |-> n \div g, den |-> d \div g]

Zero == Rat(0, 1)

\* Sum and difference over the least common denominator
RAdd(a, b) ==
    LET g == GCD(a.den, b.den)
    IN  Rat(a.num * (b.den \div g) + b.num * (a.den \div g),
            (a.den \div g) * b.den)

RSub(a, b) ==
    LET g == GCD(a.den, b.den)
    IN  Rat(a.num * (b.den \div g) - b.num * (a.den \div g),
            (a.den \div g) * b.den)

RAbs(a) == [num |-> Abs(a.num), den |-> a.den]

RMulInt(a, k) == Rat(a.num * k, a.den)

RDivInt(a, k) == Rat(a.num, a.den * k)

RLt(a, b) == a.num * b.den < b.num * a.den

RLe(a, b) == a.num * b.den <= b.num * a.den

RMin(a, b) == IF RLt(b, a) THEN b ELSE a

\* round(x, ndigits): nearest multiple of 10^-ndigits, ties to even.
\* scale is 10^ndigits.
PyRound(x, scale) ==
    LET n == x.num * scale
        d == x.den
        q == n \div d
        r == n % d
        k == IF 2 * r > d THEN q + 1
             ELSE IF 2 * r < d THEN q
             ELSE IF q % 2 = 0 THEN q ELSE q + 1
    IN  Rat(k, scale)

\* ------------------------------------------------------------------------
\* Characters
\* ------------------------------------------------------------------------
Lowers ==
    << "a", "b", "c", "d", "e", "f", "g", "h", "i", "j", "k", "l", "m",
       "n", "o", "p", "q", "r", "s", "t", "u", "v", "w", "x", "y", "z" >>

Uppers ==
    << "A", "B", "C", "D", "E", "F", "G", "H", "I", "J", "K", "L", "M",
       "N", "O", "P", "Q", "R", "S", "T", "U", "V", "W", "X", "Y", "Z" >>

Range(f) == { f[i] : i \in DOMAIN f }

\* re: [a-zA-Z]
IsLetter(c) == c \in Range(Lowers) \cup Range(Uppers)

\* re: \s
IsSpace(c) == c \in { " ", "\t", "\n", "\r" }

\* str.lower() on one character
ToLower(c) ==
    IF c \in Range(Uppers)
    THEN Lowers[CHOOSE i \in DOMAIN Uppers : Uppers[i] = c]
    ELSE c

Lower(s) == [ i \in 1..Len(s) |-> ToLower(s[i]) ]

\* All sequences over set S of length at most n
SeqsUpTo(S, n) == UNION { [1..k -> S] : k \in 0..n }

\* ------------------------------------------------------------------------
\* TextPreprocessor.clean_text
\* ------------------------------------------------------------------------
\* Index of the last character of the run of non-whitespace starting at i.
RECURSIVE RunEnd(_, _)
RunEnd(s, i) ==
    IF i + 1 <= Len(s) /\ ~IsSpace(s[i + 1]) THEN RunEnd(s, i + 1) ELSE i

\* The literal lit occurs in s at position i.
MatchLit(s, i, lit) ==
    /\ i + Len(lit) - 1 <= Len(s)
    /\ \A k \in 1..Len(lit) : s[i + k - 1] = lit[k]

UrlPrefixes == { <<"h","t","t","p">>, <<"w","w","w">>, <<"h","t","t","p","s">> }

\* r'http\S+|www\S+|https\S+' matches at position i: a prefix followed by
\* at least one non-whitespace character; \S+ is greedy, so every
\* alternative ends at the end of the run.
UrlMatchAt(s, i) ==
    \E lit \in UrlPrefixes :
        /\ MatchLit(s, i, lit)
        /\ i + Len(lit) <= Len(s)
        /\ ~IsSpace(s[i + Len(lit)])

\* re.sub(r'http\S+|www\S+|https\S+', '', text): leftmost matches, left to right
RECURSIVE SubUrl(_, _)
SubUrl(s, i) ==
    IF i > Len(s) THEN << >>
    ELSE IF UrlMatchAt(s, i) THEN SubUrl(s, RunEnd(s, i) + 1)
    ELSE << s[i] >> \o SubUrl(s, i + 1)

\* r'\S+@\S+' matches at position i: a non-empty run of non-whitespace, an
\* '@' and a non-empty run of non-whitespace; the match ends at the end of
\* the run.
EmailMatchAt(s, i) ==
    /\ ~IsSpace(s[i])
    /\ \E j \in (i + 1)..(RunEnd(s, i) - 1) : s[j] = "@"

\* re.sub(r'\S+@\S+', '', text)
RECURSIVE SubEmail(_, _)
SubEmail(s, i) ==
    IF i > Len(s) THEN << >>
    ELSE IF EmailMatchAt(s, i) THEN SubEmail(s, RunEnd(s, i) + 1)
    ELSE << s[i] >> \o SubEmail(s, i + 1)

\* re.sub(r'[^a-zA-Z\s]', '', text)
SubSpecial(s) == SelectSeq(s, LAMBDA c : IsLetter(c) \/ IsSpace(c))

\* Index of the last character of the run of whitespace starting at i.
RECURSIVE SpaceEnd(_, _)
SpaceEnd(s, i) ==
    IF i + 1 <= Len(s) /\ IsSpace(s[i + 1]) THEN SpaceEnd(s, i + 1) ELSE i

\* re.sub(r'\s+', ' ', text)
RECURSIVE SubSpaces(_, _)
SubSpaces(s, i) ==
    IF i > Len(s) THEN << >>
    ELSE IF IsSpace(s[i]) THEN << " " >> \o SubSpaces(s, SpaceEnd(s, i) + 1)
    ELSE << s[i] >> \o SubSpaces(s, i + 1)

\* str.strip()
RECURSIVE LStrip(_)
LStrip(s) ==
    IF s # << >> /\ IsSpace(Head(s)) THEN LStrip(Tail(s)) ELSE s

RECURSIVE RStrip(_)
RStrip(s) ==
    IF s # << >> /\ IsSpace(s[Len(s)])
    THEN RStrip(SubSeq(s, 1, Len(s) - 1)) ELSE s

Strip(s) == RStrip(LStrip(s))

\* Variant of clean_text: without the final strip()
\* Variant of clean_text: the pattern of the special characters spares the
\* apostrophe
clean_text_apostrophe(text) ==
    LET t1 == Lower(text)
        t2 == SubUrl(t1, 1)
        t3 == SubEmail(t2, 1)
        t4 == SelectSeq(t3, LAMBDA c : IsLetter(c) \/ IsSpace(c) \/ c = "'")
    IN  Strip(SubSpaces(t4, 1))

clean_text_nostrip(text) ==
    LET t1 == Lower(text)
        t2 == SubUrl(t1, 1)
        t3 == SubEmail(t2, 1)
        t4 == SubSpecial(t3)
    IN  SubSpaces(t4, 1)

clean_text(text) ==
    LET t1 == Lower(text)
        t2 == SubUrl(t1, 1)
        t3 == SubEmail(t2, 1)
        t4 == SubSpecial(t3)
    IN  Strip(SubSpaces(t4, 1))

\* ------------------------------------------------------------------------
\* TextPreprocessor.tokenize
\* ------------------------------------------------------------------------
\* str.split(sep) for a one-character separator
RECURSIVE Split(_, _)
Split(s, sep) ==
    IF \E i \in 1..Len(s) : s[i] = sep
    THEN LET i == CHOOSE k \in 1..Len(s) :
                      s[k] = sep /\ \A m \in 1..(k - 1) : s[m] # sep
         IN  << SubSeq(s, 1, i - 1) >> \o Split(SubSeq(s, i + 1, Len(s)), sep)
    ELSE << s >>

\* Variant of tokenize: str.split(' '), which yields an empty word for an
\* empty text
tokenize_split(text) == Split(text, " ")

\* nltk word_tokenize on a cleaned text (lowercase letters and single
\* spaces): the words between the spaces.  The Treebank splits of "cannot",
\* "gonna", "gotta", "wanna", "gimme", "lemme" cannot be spelled with the
\* letters of the model's texts.
tokenize(text) == SelectSeq(Split(text, " "), LAMBDA w : w # << >>)

\* ------------------------------------------------------------------------
\* TextPreprocessor.__init__ and remove_stopwords
\* ------------------------------------------------------------------------
\* stopwords.words('english'), an excerpt
EnglishStopwords ==
    { <<"i">>, <<"m","e">>, <<"m","y">>, <<"w","e">>, <<"y","o","u">>,
      <<"h","e">>, <<"i","t">>, <<"a">>, <<"a","n">>, <<"t","h","e">>,
      <<"a","n","d">>, <<"b","u","t">>, <<"i","f">>, <<"o","r">>,
      <<"a","s">>, <<"o","f">>, <<"a","t">>, <<"b","y">>,
      <<"f","o","r">>, <<"t","o">>, <<"i","n">>, <<"o","n">>,
      <<"i","s">>, <<"a","r","e">>, <<"w","a","s">>, <<"b","e">>,
      <<"s","o">>, <<"t","o","o">>, <<"n","o">>, <<"n","o","r">>,
      <<"n","o","t">>, <<"s">>, <<"t">>, <<"o">>,
      <<"d","o","n","'","t">>, <<"w","o","n","'","t">>,
      <<"d","i","d","n","'","t">>, <<"d","o","e","s","n","'","t">>,
      <<"w","o","u","l","d","n","'","t">>,
      <<"s","h","o","u","l","d","n","'","t">>,
      <<"c","o","u","l","d","n","'","t">>, <<"t","h","i","s">>,
      <<"t","h","a","t">> }

\* negation_words of TextPreprocessor.__init__
FilterNegationWords ==
    { <<"n","o">>, <<"n","o","t">>, <<"n","o","r">>,
      <<"n","e","v","e","r">>, <<"d","o","n","'","t">>,
      <<"d","o","e","s","n","'","t">>, <<"d","i","d","n","'","t">>,
      <<"w","o","n","'","t">>, <<"w","o","u","l","d","n","'","t">>,
      <<"s","h","o","u","l","d","n","'","t">>,
      <<"c","o","u","l","d","n","'","t">> }

\* Variant of InitStopWords: the negation words are left in the set
InitStopWords_all == EnglishStopwords

\* self.stop_words after construction
InitStopWords == EnglishStopwords \ FilterNegationWords

remove_stopwords(tokens, stopset) ==
    SelectSeq(tokens, LAMBDA word : word \notin stopset)

\* ------------------------------------------------------------------------
\* TextPreprocessor.lemmatize_tokens (WordNetLemmatizer, pos = noun)
\* ------------------------------------------------------------------------
\* Noun lemmas of WordNet, an excerpt
WordNetNouns ==
    { <<"n">>, <<"o">>, <<"s">>, <<"n","o">>, <<"o","s">>, <<"s","o">>,
      <<"s","o","n">>, <<"n","o","o","n">>, <<"m","a","n">>,
      <<"f","o","o","t">> }

\* noun.exc, an excerpt: irregular plural -> lemmas
NounExceptions ==
    ( <<"m","e","n">> :> << <<"m","a","n">> >> ) @@
    ( <<"f","e","e","t">> :> << <<"f","o","o","t">> >> )

\* MORPHOLOGICAL_SUBSTITUTIONS[NOUN]: (old suffix, new suffix)
NounSubstitutions ==
    << << <<"s">>, << >> >>,
       << <<"s","e","s">>, <<"s">> >>,
       << <<"v","e","s">>, <<"f">> >>,
       << <<"x","e","s">>, <<"x">> >>,
       << <<"z","e","s">>, <<"z">> >>,
       << <<"c","h","e","s">>, <<"c","h">> >>,
       << <<"s","h","e","s">>, <<"s","h">> >>,
       << <<"m","e","n">>, <<"m","a","n">> >>,
       << <<"i","e","s">>, <<"y">> >> >>

EndsWith(w, suf) ==
    /\ Len(suf) <= Len(w)
    /\ SubSeq(w, Len(w) - Len(suf) + 1, Len(w)) = suf

\* apply_rules for one form: one candidate per suffix rule that applies
RECURSIVE ApplyRulesFrom(_, _)
ApplyRulesFrom(form, k) ==
    IF k > Len(NounSubstitutions) THEN << >>
    ELSE LET old == NounSubstitutions[k][1]
             new == NounSubstitutions[k][2]
         IN  ( IF EndsWith(form, old)
               THEN << SubSeq(form, 1, Len(form) - Len(old)) \o new >>
               ELSE << >> )
             \o ApplyRulesFrom(form, k + 1)

RECURSIVE ApplyRules(_)
ApplyRules(forms) ==
    IF forms = << >> THEN << >>
    ELSE ApplyRulesFrom(Head(forms), 1) \o ApplyRules(Tail(forms))

\* filter_forms: the forms that are noun lemmas, without duplicates
RECURSIVE FilterForms(_, _)
FilterForms(forms, seen) ==
    IF forms = << >> THEN << >>
    ELSE IF Head(forms) \in WordNetNouns /\ Head(forms) \notin seen
         THEN << Head(forms) >>
              \o FilterForms(Tail(forms), seen \cup { Head(forms) })
         ELSE FilterForms(Tail(forms), seen)

\* step 3 of morphy: keep applying the rules until a form is a lemma
RECURSIVE MorphyLoop(_)
MorphyLoop(forms) ==
    IF forms = << >> THEN << >>
    ELSE LET next == ApplyRules(forms)
             results == FilterForms(next, { })
         IN  IF results # << >> THEN results ELSE MorphyLoop(next)

Morphy(form) ==
    IF form \in DOMAIN NounExceptions
    THEN FilterForms(<< form >> \o NounExceptions[form], { })
    ELSE LET forms == ApplyRules(<< form >>)
             results == FilterForms(<< form >> \o forms, { })
         IN  IF results # << >> THEN results ELSE MorphyLoop(forms)

\* min(lemmas, key=len): the first of the shortest
MinByLen(lemmas) ==
    lemmas[CHOOSE i \in 1..Len(lemmas) :
               /\ \A j \in 1..Len(lemmas) : Len(lemmas[i]) <= Len(lemmas[j])
               /\ \A j \in 1..(i - 1) : Len(lemmas[j]) > Len(lemmas[i])]

Lemmatize(word) ==
    LET lemmas == Morphy(word)
    IN  IF lemmas # << >> THEN MinByLen(lemmas) ELSE word

lemmatize_tokens(tokens) == [ i \in 1..Len(tokens) |-> Lemmatize(tokens[i]) ]

\* ------------------------------------------------------------------------
\* TextPreprocessor.preprocess (use_stemming=False, use_lemmatization=True)
\* ------------------------------------------------------------------------
preprocess(text, stopset) ==
    LET cleaned_text == clean_text(text)
        tokens == tokenize(cleaned_text)
        filtered_tokens == remove_stopwords(tokens, stopset)
    IN  [ cleaned_text |-> cleaned_text,
          tokens |-> tokens,
          processed_tokens |-> lemmatize_tokens(filtered_tokens) ]

\* ------------------------------------------------------------------------
\* FeatureExtractor.load_lexicon
\* ------------------------------------------------------------------------
Digits == << "0", "1", "2", "3", "4", "5", "6", "7", "8", "9" >>

IsDigit(c) == c \in Range(Digits)

DigitVal(c) == (CHOOSE i \in DOMAIN Digits : Digits[i] = c) - 1

RECURSIVE DigitsVal(_)
DigitsVal(ds) ==
    IF ds = << >> THEN 0
    ELSE 10 * DigitsVal(SubSeq(ds, 1, Len(ds) - 1)) + DigitVal(ds[Len(ds)])

RECURSIVE Pow10(_)
Pow10(k) == IF k = 0 THEN 1 ELSE 10 * Pow10(k - 1)

\* float(s) for the decimal forms [sign] digits [. digits]; ok = FALSE is
\* ValueError.  Exponents, "inf" and "nan" do not occur in the model's files.
ParseFloat(field) ==
    LET s == Strip(field)
        signed == s # << >> /\ Head(s) \in { "+", "-" }
        body == IF signed THEN Tail(s) ELSE s
        parts == Split(body, ".")
        int_part == parts[1]
        frac_part == IF Len(parts) = 2 THEN parts[2] ELSE << >>
        ok == /\ Len(parts) <= 2
              /\ \A i \in 1..Len(int_part) : IsDigit(int_part[i])
              /\ \A i \in 1..Len(frac_part) : IsDigit(frac_part[i])
              /\ int_part \o frac_part # << >>
        magnitude == DigitsVal(int_part \o frac_part)
    IN  IF ok
        THEN [ ok |-> TRUE,
               value |-> Rat(IF Head(s) = "-" THEN -magnitude ELSE magnitude,
                             Pow10(Len(frac_part))) ]
        ELSE [ ok |-> FALSE, value |-> Zero ]

\* d[key] = value on a dict
DictPut(d, key, value) ==
    [ k \in DOMAIN d \cup { key } |-> IF k = key THEN value ELSE d[k] ]

EmptyDict == [ k \in { } |-> Zero ]

\* Variant of LoadLine: the fields after the second one are dropped, so
\* that a line with two commas is read as an entry
LoadLine_lenient(lex, raw_line) ==
    LET line == Strip(raw_line)
        fields == Split(line, ",")
        parsed == ParseFloat(fields[2])
    IN  IF line = << >> \/ Head(line) = "#" THEN lex
        ELSE IF Len(fields) < 2 THEN lex
        ELSE IF ~parsed.ok THEN lex
        ELSE IF RLt(Zero, parsed.value)
             THEN [ lex EXCEPT !.positive_words =
                        DictPut(@, fields[1], parsed.value) ]
        ELSE IF RLt(parsed.value, Zero)
             THEN [ lex EXCEPT !.negative_words =
                        DictPut(@, fields[1], parsed.value) ]
        ELSE lex

\* Variant of LoadLine: the first test is score >= 0, so that a score of 0
\* is stored in the positive dict
LoadLine_nonneg(lex, raw_line) ==
    LET line == Strip(raw_line)
        fields == Split(line, ",")
        parsed == ParseFloat(fields[2])
    IN  IF line = << >> \/ Head(line) = "#" THEN lex
        ELSE IF Len(fields) # 2 THEN lex
        ELSE IF ~parsed.ok THEN lex
        ELSE IF RLe(Zero, parsed.value)
             THEN [ lex EXCEPT !.positive_words =
                        DictPut(@, fields[1], parsed.value) ]
        ELSE [ lex EXCEPT !.negative_words =
                        DictPut(@, fields[1], parsed.value) ]

\* One iteration of the loop over the lines of the file; lex is the pair
\* of dicts [positive_words, negative_words].
LoadLine(lex, raw_line) ==
    LET line == Strip(raw_line)
        fields == Split(line, ",")
        parsed == ParseFloat(fields[2])
    IN  IF line = << >> \/ Head(line) = "#" THEN lex
        ELSE IF Len(fields) # 2 THEN lex
        ELSE IF ~parsed.ok THEN lex
        ELSE IF RLt(Zero, parsed.value)
             THEN [ lex EXCEPT !.positive_words =
                        DictPut(@, fields[1], parsed.value) ]
        ELSE IF RLt(parsed.value, Zero)
             THEN [ lex EXCEPT !.negative_words =
                        DictPut(@, fields[1], parsed.value) ]
        ELSE lex

RECURSIVE LoadLines(_, _)
LoadLines(lex, lines) ==
    IF lines = << >> THEN lex
    ELSE LoadLines(LoadLine(lex, Head(lines)), Tail(lines))

\* Variant of load_lexicon: a missing file is replaced by a built-in
\* lexicon of one word
load_lexicon_builtin(file) ==
    LET empty == [ positive_words |-> EmptyDict, negative_words |-> EmptyDict ]
    IN  IF ~file.exists
        THEN [ empty EXCEPT !.positive_words = DictPut(@, << "n" >>, Rat(2, 1)) ]
        ELSE LoadLines(empty, file.lines)

\* FeatureExtractor.__init__ followed by load_lexicon(lexicon_path); file is
\* [exists, lines]
load_lexicon(file) ==
    LET empty == [ positive_words |-> EmptyDict, negative_words |-> EmptyDict ]
    IN  IF ~file.exists THEN empty ELSE LoadLines(empty, file.lines)

\* ------------------------------------------------------------------------
\* FeatureExtractor.extract_ngrams
\* ------------------------------------------------------------------------
\* sep.join(words)
RECURSIVE Join(_, _)
Join(words, sep) ==
    IF words = << >> THEN << >>
    ELSE IF Len(words) = 1 THEN words[1]
    ELSE words[1] \o << sep >> \o Join(Tail(words), sep)

\* Variant of extract_ngrams: the loop is over range(len(tokens) - n)
extract_ngrams_short(tokens, n) ==
    LET count == IF Len(tokens) - n > 0 THEN Len(tokens) - n ELSE 0
    IN  [ i \in 1..count |-> Join(SubSeq(tokens, i, i + n - 1), " ") ]

extract_ngrams(tokens, n) ==
    LET count == IF Len(tokens) - n + 1 > 0 THEN Len(tokens) - n + 1 ELSE 0
    IN  [ i \in 1..count |-> Join(SubSeq(tokens, i, i + n - 1), " ") ]

\* ------------------------------------------------------------------------
\* FeatureExtractor.calculate_sentiment_score
\* ------------------------------------------------------------------------
\* Variant of the loop: the test of the negative dict is an if, not an
\* elif, so that a token of both dicts is scored twice
RECURSIVE ScoreLoopBoth(_, _, _, _, _)
ScoreLoopBoth(tokens, i, acc, pos, neg) ==
    IF i > Len(tokens) THEN acc
    ELSE LET token == tokens[i]
             first == IF token \in DOMAIN pos
                      THEN [ acc EXCEPT
                               !.positive_score = RAdd(@, pos[token]),
                               !.positive_count = @ + 1 ]
                      ELSE acc
             second == IF token \in DOMAIN neg
                       THEN [ first EXCEPT
                                !.negative_score = RAdd(@, RAbs(neg[token])),
                                !.negative_count = @ + 1 ]
                       ELSE first
         IN  ScoreLoopBoth(tokens, i + 1, second, pos, neg)

\* Variant of the loop: a token of neither dict counts as faintly positive
RECURSIVE ScoreLoopUnknown(_, _, _, _, _)
ScoreLoopUnknown(tokens, i, acc, pos, neg) ==
    IF i > Len(tokens) THEN acc
    ELSE LET token == tokens[i]
         IN  IF token \in DOMAIN pos
             THEN ScoreLoopUnknown(tokens, i + 1,
                      [ acc EXCEPT
                          !.positive_score = RAdd(@, pos[token]),
                          !.positive_count = @ + 1 ], pos, neg)
             ELSE IF token \in DOMAIN neg
             THEN ScoreLoopUnknown(tokens, i + 1,
                      [ acc EXCEPT
                          !.negative_score = RAdd(@, RAbs(neg[token])),
                          !.negative_count = @ + 1 ], pos, neg)
             ELSE ScoreLoopUnknown(tokens, i + 1,
                      [ acc EXCEPT !.positive_score = RAdd(@, Rat(1, 10)) ],
                      pos, neg)

\* Variant of ScoreLoop: a token that occurred earlier in the list is
\* skipped, so that a repeated token is counted once
RECURSIVE ScoreLoopOnce(_, _, _, _, _)
ScoreLoopOnce(tokens, i, acc, pos, neg) ==
    IF i > Len(tokens) THEN acc
    ELSE LET token == tokens[i]
             fresh == \A j \in 1..(i - 1) : tokens[j] # token
         IN  IF fresh /\ token \in DOMAIN pos
             THEN ScoreLoopOnce(tokens, i + 1,
                      [ acc EXCEPT
                          !.positive_score = RAdd(@, pos[token]),
                          !.positive_count = @ + 1 ], pos, neg)
             ELSE IF fresh /\ token \in DOMAIN neg
             THEN ScoreLoopOnce(tokens, i + 1,
                      [ acc EXCEPT
                          !.negative_score = RAdd(@, RAbs(neg[token])),
                          !.negative_count = @ + 1 ], pos, neg)
             ELSE ScoreLoopOnce(tokens, i + 1, acc, pos, neg)

\* The loop over the tokens, from token i on; acc holds the four
\* accumulators.
RECURSIVE ScoreLoop(_, _, _, _, _)
ScoreLoop(tokens, i, acc, pos, neg) ==
    IF i > Len(tokens) THEN acc
    ELSE LET token == tokens[i]
         IN  IF token \in DOMAIN pos
             THEN ScoreLoop(tokens, i + 1,
                      [ acc EXCEPT
                          !.positive_score = RAdd(@, pos[token]),
                          !.positive_count = @ + 1 ], pos, neg)
             ELSE IF token \in DOMAIN neg
             THEN ScoreLoop(tokens, i + 1,
                      [ acc EXCEPT
                          !.negative_score = RAdd(@, RAbs(neg[token])),
                          !.negative_count = @ + 1 ], pos, neg)
             ELSE ScoreLoop(tokens, i + 1, acc, pos, neg)

\* Variant of calculate_sentiment_score: the negative magnitudes are added
\* to the total instead of subtracted
calculate_sentiment_score_added(tokens, pos, neg) ==
    LET acc == ScoreLoop(tokens, 1,
                   [ positive_score |-> Zero, negative_score |-> Zero,
                     positive_count |-> 0, negative_count |-> 0 ], pos, neg)
        total_score == RAdd(acc.positive_score, acc.negative_score)
        normalized_score == IF Len(tokens) > 0
                            THEN RDivInt(total_score, Len(tokens))
                            ELSE Zero
    IN  [ positive_score |-> acc.positive_score,
          negative_score |-> acc.negative_score,
          total_score |-> total_score,
          normalized_score |-> normalized_score,
          positive_count |-> acc.positive_count,
          negative_count |-> acc.negative_count,
          token_count |-> Len(tokens) ]

calculate_sentiment_score(tokens, pos, neg) ==
    LET acc == ScoreLoop(tokens, 1,
                   [ positive_score |-> Zero, negative_score |-> Zero,
                     positive_count |-> 0, negative_count |-> 0 ], pos, neg)
        total_score == RSub(acc.positive_score, acc.negative_score)
        normalized_score == IF Len(tokens) > 0
                            THEN RDivInt(total_score, Len(tokens))
                            ELSE Zero
    IN  [ positive_score |-> acc.positive_score,
          negative_score |-> acc.negative_score,
          total_score |-> total_score,
          normalized_score |-> normalized_score,
          positive_count |-> acc.positive_count,
          negative_count |-> acc.negative_count,
          token_count |-> Len(tokens) ]

\* ------------------------------------------------------------------------
\* FeatureExtractor.detect_negation
\* ------------------------------------------------------------------------
NegationMarkers ==
    { <<"n","o","t">>, <<"n","o">>, <<"n","e","v","e","r">>,
      <<"n","e","i","t","h","e","r">>, <<"n","o","r">>,
      <<"n","o","n","e">>, <<"n","o","b","o","d","y">>,
      <<"n","o","t","h","i","n","g">>, <<"n","o","w","h","e","r","e">>,
      <<"d","o","n","'","t">>, <<"d","o","e","s","n","'","t">>,
      <<"d","i","d","n","'","t">>, <<"w","o","n","'","t">>,
      <<"w","o","u","l","d","n","'","t">>,
      <<"s","h","o","u","l","d","n","'","t">>,
      <<"c","o","u","l","d","n","'","t">> }

detect_negation(tokens) ==
    Len(SelectSeq(tokens, LAMBDA token : token \in NegationMarkers))

\* ------------------------------------------------------------------------
\* FeatureExtractor.extract_features (include_ngrams=True by default)
\* ------------------------------------------------------------------------
RECURSIVE SumLen(_)
SumLen(tokens) ==
    IF tokens = << >> THEN 0 ELSE Len(Head(tokens)) + SumLen(Tail(tokens))

extract_features(tokens, include_ngrams, pos, neg) ==
    LET sentiment_features == calculate_sentiment_score(tokens, pos, neg)
        negation == [ negation_count |-> detect_negation(tokens) ]
        bigrams == extract_ngrams(tokens, 2)
        ngrams == [ bigrams |-> bigrams, bigram_count |-> Len(bigrams) ]
        lengths == [ word_count |-> Len(tokens),
                     avg_word_length |->
                         IF tokens # << >>
                         THEN Rat(SumLen(tokens), Len(tokens)) ELSE Zero ]
    IN  IF include_ngrams
        THEN sentiment_features @@ negation @@ ngrams @@ lengths
        ELSE sentiment_features @@ negation @@ lengths

\* ------------------------------------------------------------------------
\* SentimentAnalyzer.analyze_sentiment
\* ------------------------------------------------------------------------
Hundred == Rat(100, 1)

\* Variants of classify with one slip each: inclusive thresholds, no cap
\* of the confidence at 100, the boost applied without a lexicon match
classify_variant(features, pos_threshold, neg_threshold, inclusive, capped, always) ==
    LET normalized_score == features.normalized_score
        cap(c) == IF capped THEN RMin(c, Hundred) ELSE c
        above == IF inclusive THEN RLe(pos_threshold, normalized_score)
                 ELSE RLt(pos_threshold, normalized_score)
        below == IF inclusive THEN RLe(normalized_score, neg_threshold)
                 ELSE RLt(normalized_score, neg_threshold)
        first == IF above
                 THEN [ sentiment |-> "Positive",
                        confidence |-> cap(RMulInt(normalized_score, 100)) ]
                 ELSE IF below
                 THEN [ sentiment |-> "Negative",
                        confidence |-> cap(RMulInt(RAbs(normalized_score), 100)) ]
                 ELSE [ sentiment |-> "Neutral", confidence |-> Rat(50, 1) ]
    IN  IF always \/ features.positive_count > 0 \/ features.negative_count > 0
        THEN [ first EXCEPT !.confidence = cap(RAdd(@, Rat(20, 1))) ]
        ELSE first

classify_inclusive(features, pos_threshold, neg_threshold) ==
    classify_variant(features, pos_threshold, neg_threshold, TRUE, TRUE, FALSE)

classify_uncapped(features, pos_threshold, neg_threshold) ==
    classify_variant(features, pos_threshold, neg_threshold, FALSE, FALSE, FALSE)

classify_always_boost(features, pos_threshold, neg_threshold) ==
    classify_variant(features, pos_threshold, neg_threshold, FALSE, TRUE, TRUE)

\* The classification and the confidence of lines 44-58: the values of
\* the locals sentiment and confidence before the return
\* Variant of classify: a negation marker among the tokens turns Positive
\* into Negative and Negative into Positive
classify_negated(features, pos_threshold, neg_threshold) ==
    LET class == classify_variant(features, pos_threshold, neg_threshold,
                                  FALSE, TRUE, FALSE)
    IN  IF features.negation_count = 0 \/ class.sentiment = "Neutral"
        THEN class
        ELSE [ class EXCEPT !.sentiment =
                   IF @ = "Positive" THEN "Negative" ELSE "Positive" ]

\* Variant of classify: a score of zero or more is Positive
classify_nonnegative(features, pos_threshold, neg_threshold) ==
    LET class == classify_variant(features, pos_threshold, neg_threshold,
                                  FALSE, TRUE, FALSE)
    IN  IF class.sentiment = "Neutral" /\ RLe(Zero, features.normalized_score)
        THEN [ class EXCEPT !.sentiment = "Positive" ]
        ELSE class

classify(features, pos_threshold, neg_threshold) ==
    LET normalized_score == features.normalized_score
        first == IF RLt(pos_threshold, normalized_score)
                 THEN [ sentiment |-> "Positive",
                        confidence |->
                            RMin(RMulInt(normalized_score, 100), Hundred) ]
                 ELSE IF RLt(normalized_score, neg_threshold)
                 THEN [ sentiment |-> "Negative",
                        confidence |->
                            RMin(RMulInt(RAbs(normalized_score), 100), Hundred) ]
                 ELSE [ sentiment |-> "Neutral", confidence |-> Rat(50, 1) ]
    IN  IF features.positive_count > 0 \/ features.negative_count > 0
        THEN [ first EXCEPT !.confidence = RMin(RAdd(@, Rat(20, 1)), Hundred) ]
        ELSE first

\* The locals of one call: [text, features, sentiment, confidence]
analyze_locals(text, pos, neg, stopset, pos_threshold, neg_threshold) ==
    LET pre == preprocess(text, stopset)
        features == extract_features(pre.processed_tokens, TRUE, pos, neg)
        class == classify(features, pos_threshold, neg_threshold)
    IN  [ text |-> text,
          cleaned_text |-> pre.cleaned_text,
          processed_tokens |-> pre.processed_tokens,
          features |-> features,
          sentiment |-> class.sentiment,
          confidence |-> class.confidence ]

\* Lines 41-58 of analyze_sentiment on a list of processed tokens
analyze_tokens(processed_tokens, pos, neg, pos_threshold, neg_threshold) ==
    LET features == extract_features(processed_tokens, TRUE, pos, neg)
        class == classify(features, pos_threshold, neg_threshold)
    IN  [ processed_tokens |-> processed_tokens,
          features |-> features,
          sentiment |-> class.sentiment,
          confidence |-> class.confidence ]

\* Variant of analyze_result: total_words counts the words of the cleaned
\* text, stopwords included
analyze_result_words(l) ==
    [ original_text |-> l.text,
      cleaned_text |-> l.cleaned_text,
      processed_tokens |-> l.processed_tokens,
      sentiment |-> l.sentiment,
      confidence |-> PyRound(l.confidence, 100),
      sentiment_score |-> PyRound(l.features.normalized_score, 10000),
      positive_words |-> l.features.positive_count,
      negative_words |-> l.features.negative_count,
      total_words |-> Len(tokenize(l.cleaned_text)) ]

\* Variant of analyze_result: the cleaned text returned as original_text
analyze_result_cleaned(l) ==
    [ original_text |-> l.cleaned_text,
      cleaned_text |-> l.cleaned_text,
      processed_tokens |-> l.processed_tokens,
      sentiment |-> l.sentiment,
      confidence |-> PyRound(l.confidence, 100),
      sentiment_score |-> PyRound(l.features.normalized_score, 10000),
      positive_words |-> l.features.positive_count,
      negative_words |-> l.features.negative_count,
      total_words |-> l.features.token_count ]

\* The dict returned by analyze_sentiment, built from the locals
analyze_result(l) ==
    [ original_text |-> l.text,
      cleaned_text |-> l.cleaned_text,
      processed_tokens |-> l.processed_tokens,
      sentiment |-> l.sentiment,
      confidence |-> PyRound(l.confidence, 100),
      sentiment_score |-> PyRound(l.features.normalized_score, 10000),
      positive_words |-> l.features.positive_count,
      negative_words |-> l.features.negative_count,
      total_words |-> l.features.token_count ]

\* ------------------------------------------------------------------------
\* Inputs of the model
\* ------------------------------------------------------------------------
\* Characters of the review texts given to analyze_sentiment
TextAlphabet == { "n", "o", "s", " ", "!" }

\* The first text an analyzer is given
Texts == SeqsUpTo(TextAlphabet, MaxTextLen)

\* The texts an analyzer is given after the first one; the first result of
\* each is remembered
ProbeTexts == { <<"n">>, <<"n","o">> }

\* Characters of the strings given to clean_text alone
CleanAlphabet == { "w", "H", "t", "p", ".", "@", " ", "\t" }

CleanTexts == SeqsUpTo(CleanAlphabet, MaxCleanLen)

\* Lines of the lexicon files: entries, a comment, a blank line, a zero
\* score, a line without comma, an entry with surrounding blanks, an entry
\* with an empty word, a line with two commas, a score that is no number
LexiconLines ==
    { <<"n",",","0",".","0","5">>, <<"n",",","-","0",".","0","5">>,
      <<"n",",","2">>, <<"n","o",",","-","2">>,
      <<" ","n","o",",","0",".","5"," ">>, <<"#"," ","n",",","2">>, << >>,
      <<"n",",","0">>, <<"n",";","2">>, <<",","2">>,
      <<"n",",","1",",","2">>, <<"n",",","x">> }

LexiconFiles ==
    { [ exists |-> FALSE, lines |-> << >> ] } \cup
    { [ exists |-> TRUE, lines |-> ls ] : ls \in SeqsUpTo(LexiconLines, MaxLexLines) }

\* Tokens given to calculate_sentiment_score alone
ScoreVocabulary == { <<"n">>, <<"n","o">>, <<"x">> }

\* ------------------------------------------------------------------------
\* Initial states: the analyzer after SentimentAnalyzer.__init__
\* ------------------------------------------------------------------------
NoLocals == [ sentiment |-> "none" ]

NoResult == [ sentiment |-> "none" ]

\* The lexicons that FeatureExtractor.__init__ loads from the files
LoadedLexicons == { load_lexicon(file) : file \in LexiconFiles }

\* The file is read by load_lexicon only; the specifications that start
\* from a constructed analyzer keep no file
NoFile == [ exists |-> FALSE, lines |-> << >> ]

IdleLoad ==
    /\ lexicon_file = NoFile
    /\ constructed = TRUE

InitAnalyzer ==
    /\ \E lex \in LoadedLexicons :
          /\ positive_words = lex.positive_words
          /\ negative_words = lex.negative_words
    /\ stop_words = InitStopWords
    /\ positive_threshold = Rat(5, 100)
    /\ negative_threshold = Rat(-5, 100)

\* A TextPreprocessor alone: no lexicon is loaded
InitPreprocessor ==
    /\ positive_words = EmptyDict
    /\ negative_words = EmptyDict
    /\ stop_words = InitStopWords
    /\ positive_threshold = Rat(5, 100)
    /\ negative_threshold = Rat(-5, 100)

NoCalls ==
    /\ locals = NoLocals
    /\ result = NoResult
    /\ first_result = [ t \in ProbeTexts |-> NoResult ]
    /\ repeated = FALSE

IdleCalls ==
    /\ request = << >>
    /\ pending = FALSE
    /\ NoCalls

IdleClean ==
    /\ clean_arg = << >>
    /\ clean_ret = << >>
    /\ clean_calls = 0

IdleScore ==
    /\ token_list = << >>
    /\ added = << >>
    /\ feats = calculate_sentiment_score(<< >>, positive_words, negative_words)
    /\ prev_feats = feats

IdleThreads == threads = << >>

IdleBatch ==
    /\ dataset = << >>
    /\ results_df = << >>
    /\ batch_status = "idle"

NoVerdict == [ sentiment |-> "none" ]

IdleNegation ==
    /\ verdict = NoVerdict
    /\ prev_verdict = NoVerdict
    /\ prev_tokens = << >>
    /\ replaced = 0

NotReturned == [ returned |-> FALSE ]

IdleTokens ==
    /\ stopword_ret = NotReturned
    /\ features_ret = NotReturned

IdleGenerate ==
    /\ reviews_data = << >>
    /\ gen_pc = "idle"
    /\ generated = << >>
    /\ order = << >>

NoCall == [ op |-> "none" ]

IdleSessions ==
    /\ sessions = << >>
    /\ last_call = NoCall

IdleLate == IdleTokens /\ IdleGenerate /\ IdleSessions

IdleOther ==
    IdleLoad /\ IdleThreads /\ IdleBatch /\ IdleNegation /\ IdleLate

\* A constructed analyzer and a first call of analyze_sentiment(text)
Init ==
    /\ InitAnalyzer
    /\ request \in Texts
    /\ pending = TRUE
    /\ NoCalls
    /\ IdleClean
    /\ IdleScore
    /\ IdleOther

\* ------------------------------------------------------------------------
\* SentimentAnalyzer.analyze_sentiment(text), text = request
\* ------------------------------------------------------------------------
\* Variant of analyze_sentiment: the tokens of a text without a lexicon
\* match are added to the stopwords
analyze_sentiment_learn ==
    /\ pending
    /\ locals' = analyze_locals(request, positive_words, negative_words,
                     stop_words, positive_threshold, negative_threshold)
    /\ result' = analyze_result(locals')
    /\ pending' = FALSE
    /\ first_result' =
          IF request \in ProbeTexts /\ first_result[request] = NoResult
          THEN [ first_result EXCEPT ![request] = result' ]
          ELSE first_result
    /\ repeated' = (request \in ProbeTexts /\ first_result[request] # NoResult)
    /\ stop_words' =
          IF result'.positive_words + result'.negative_words = 0
          THEN stop_words \cup Range(locals'.processed_tokens)
          ELSE stop_words
    /\ UNCHANGED << request, positive_words, negative_words,
                    positive_threshold, negative_threshold, clean_vars,
                    score_vars, other_vars >>

\* Variant of analyze_sentiment: the matched words are popped from the
\* positive dict while the text is scored
analyze_sentiment_pop ==
    /\ pending
    /\ locals' = analyze_locals(request, positive_words, negative_words,
                     stop_words, positive_threshold, negative_threshold)
    /\ result' = analyze_result(locals')
    /\ pending' = FALSE
    /\ first_result' =
          IF request \in ProbeTexts /\ first_result[request] = NoResult
          THEN [ first_result EXCEPT ![request] = result' ]
          ELSE first_result
    /\ repeated' = (request \in ProbeTexts /\ first_result[request] # NoResult)
    /\ positive_words' =
          [ w \in DOMAIN positive_words \ Range(locals'.processed_tokens) |->
                positive_words[w] ]
    /\ UNCHANGED << request, negative_words, stop_words, positive_threshold,
                    negative_threshold, clean_vars, score_vars, other_vars >>

analyze_sentiment ==
    /\ pending
    /\ locals' = analyze_locals(request, positive_words, negative_words,
                     stop_words, positive_threshold, negative_threshold)
    /\ result' = analyze_result(locals')
    /\ pending' = FALSE
    /\ first_result' =
          IF request \in ProbeTexts /\ first_result[request] = NoResult
          THEN [ first_result EXCEPT ![request] = result' ]
          ELSE first_result
    /\ repeated' = (request \in ProbeTexts /\ first_result[request] # NoResult)
    /\ UNCHANGED << request, analyzer_vars, clean_vars, score_vars,
                    other_vars >>

\* A caller invokes analyze_sentiment(text) on the constructed analyzer
Submit(text) ==
    /\ ~pending
    /\ constructed
    /\ request' = text
    /\ pending' = TRUE
    /\ UNCHANGED << locals, result, first_result, repeated,
                    analyzer_vars, clean_vars, score_vars, other_vars >>

Next ==
    \/ analyze_sentiment
    \/ \E text \in ProbeTexts : Submit(text)

Spec == Init /\ [][Next]_vars

\* ------------------------------------------------------------------------
\* clean_text alone, applied to a string and then to its own output
\* ------------------------------------------------------------------------
InitClean ==
    /\ InitPreprocessor
    /\ IdleCalls
    /\ IdleScore
    /\ IdleOther
    /\ clean_arg \in CleanTexts
    /\ clean_ret = << >>
    /\ clean_calls = 0

CleanFirst ==
    /\ clean_calls = 0
    /\ clean_ret' = clean_text(clean_arg)
    /\ clean_calls' = 1
    /\ UNCHANGED << clean_arg, analyzer_vars, call_vars, score_vars,
                    other_vars >>

CleanAgain ==
    /\ clean_calls = 1
    /\ clean_arg' = clean_ret
    /\ clean_ret' = clean_text(clean_ret)
    /\ clean_calls' = 2
    /\ UNCHANGED << analyzer_vars, call_vars, score_vars, other_vars >>

NextClean == CleanFirst \/ CleanAgain

SpecClean == InitClean /\ [][NextClean]_vars

\* ------------------------------------------------------------------------
\* calculate_sentiment_score alone, on a token list that grows by one token
\* ------------------------------------------------------------------------
InitScore == InitAnalyzer /\ IdleCalls /\ IdleClean /\ IdleScore /\ IdleOther

InsertAt(seq, k, x) == SubSeq(seq, 1, k - 1) \o << x >> \o SubSeq(seq, k, Len(seq))

AddToken(token, k) ==
    /\ Len(token_list) < MaxTokens
    /\ token_list' = InsertAt(token_list, k, token)
    /\ added' = token
    /\ prev_feats' = feats
    /\ feats' = calculate_sentiment_score(token_list', positive_words, negative_words)
    /\ UNCHANGED << analyzer_vars, call_vars, clean_vars, other_vars >>

NextScore ==
    \E token \in ScoreVocabulary : \E k \in 1..(Len(token_list) + 1) :
        AddToken(token, k)

SpecScore == InitScore /\ [][NextScore]_vars

\* ------------------------------------------------------------------------
\* The construction of an analyzer from the file at lexicon_path, followed
\* by calls of analyze_sentiment
\* ------------------------------------------------------------------------
InitLoad ==
    /\ InitPreprocessor
    /\ IdleLate
    /\ lexicon_file \in LexiconFiles
    /\ constructed = FALSE
    /\ IdleCalls
    /\ IdleClean
    /\ IdleScore
    /\ IdleThreads
    /\ IdleBatch
    /\ IdleNegation

\* SentimentAnalyzer.__init__: the FeatureExtractor loads the lexicon
Construct ==
    /\ ~constructed
    /\ LET lex == load_lexicon(lexicon_file)
       IN  /\ positive_words' = lex.positive_words
           /\ negative_words' = lex.negative_words
    /\ constructed' = TRUE
    /\ UNCHANGED << lexicon_file, stop_words, positive_threshold,
                    negative_threshold, call_vars, clean_vars, score_vars,
                    threads, batch_vars, negation_vars, late_vars >>

\* The texts given to an analyzer right after its construction
LoadTexts == ProbeTexts \cup { << >>, << "s", "o", " ", "n", "!" >> }

NextLoad ==
    \/ Construct
    \/ analyze_sentiment
    \/ \E text \in LoadTexts : Submit(text)

SpecLoad == InitLoad /\ [][NextLoad]_vars

\* ------------------------------------------------------------------------
\* The feature extraction and the classification of a token list, and of
\* the list with one token replaced by a negation marker
\* ------------------------------------------------------------------------
\* Tokens of the lists: the words of the lexicon files, a word of no
\* lexicon, and two negation markers
NegationVocabulary == ScoreVocabulary \cup { <<"n","o","t">> }

InitNegation ==
    /\ InitAnalyzer
    /\ IdleLate
    /\ IdleCalls
    /\ IdleClean
    /\ IdleLoad
    /\ IdleThreads
    /\ IdleBatch
    /\ token_list \in SeqsUpTo(NegationVocabulary, MaxTokens)
    /\ added = << >>
    /\ feats = calculate_sentiment_score(token_list, positive_words, negative_words)
    /\ prev_feats = feats
    /\ verdict = analyze_tokens(token_list, positive_words, negative_words,
                                positive_threshold, negative_threshold)
    /\ prev_verdict = verdict
    /\ prev_tokens = token_list
    /\ replaced = 0

\* The caller gives the list with the token at position k replaced by
\* marker
ReplaceByNegation(k, marker) ==
    /\ token_list[k] # marker
    /\ token_list' = [ token_list EXCEPT ![k] = marker ]
    /\ added' = marker
    /\ prev_feats' = feats
    /\ feats' = calculate_sentiment_score(token_list', positive_words, negative_words)
    /\ prev_tokens' = token_list
    /\ prev_verdict' = verdict
    /\ verdict' = analyze_tokens(token_list', positive_words, negative_words,
                                 positive_threshold, negative_threshold)
    /\ replaced' = k
    /\ UNCHANGED << analyzer_vars, call_vars, clean_vars, load_vars,
                    threads, batch_vars, late_vars >>

NextNegation ==
    \E k \in 1..Len(token_list) :
        \E marker \in NegationVocabulary \cap NegationMarkers :
            ReplaceByNegation(k, marker)

SpecNegation == InitNegation /\ [][NextNegation]_vars

\* ------------------------------------------------------------------------
\* Threads calling analyze_sentiment on the one analyzer that load_analyzer
\* caches; a call is the steps preprocess, extract_features, classify and
\* return, and the steps of the threads interleave
\* ------------------------------------------------------------------------
Threads == 1..MaxThreads

\* The texts the threads analyze
ThreadTexts == { <<"n">>, <<"n","o"," ","n">> }

IdleFrame ==
    [ pc |-> "idle", text |-> << >>, cleaned_text |-> << >>,
      processed_tokens |-> << >>, features |-> NoLocals, ret |-> NoResult,
      overlapped |-> FALSE ]

\* The call of the thread has begun and not returned
InFlight(u) == threads[u].pc \in { "called", "preprocessed", "extracted" }

\* The frame after a step of thread t: it remembers whether another call
\* was in flight at one of its steps
Stepped(t, frame) ==
    [ threads EXCEPT ![t] =
        [ frame EXCEPT !.overlapped =
            @ \/ \E u \in Threads \ { t } : InFlight(u) ] ]

InitThreads ==
    /\ InitAnalyzer
    /\ IdleLate
    /\ IdleCalls
    /\ IdleClean
    /\ IdleScore
    /\ IdleLoad
    /\ IdleBatch
    /\ IdleNegation
    /\ threads = [ t \in Threads |-> IdleFrame ]

\* Thread t calls analyze_sentiment(text)
ThreadCall(t, text) ==
    /\ threads[t].pc = "idle"
    /\ threads' = Stepped(t, [ IdleFrame EXCEPT !.pc = "called", !.text = text ])
    /\ UNCHANGED << analyzer_vars, call_vars, clean_vars, score_vars,
                    load_vars, batch_vars, negation_vars, late_vars >>

\* Line 38: self.preprocessor.preprocess(text)
ThreadPreprocess(t) ==
    /\ threads[t].pc = "called"
    /\ LET pre == preprocess(threads[t].text, stop_words)
       IN  threads' = Stepped(t, [ threads[t] EXCEPT
                          !.pc = "preprocessed",
                          !.cleaned_text = pre.cleaned_text,
                          !.processed_tokens = pre.processed_tokens ])
    /\ UNCHANGED << analyzer_vars, call_vars, clean_vars, score_vars,
                    load_vars, batch_vars, negation_vars, late_vars >>

\* Variant of ThreadExtract: the matched words are popped from the shared
\* positive dict
ThreadExtract_pop(t) ==
    /\ threads[t].pc = "preprocessed"
    /\ threads' = Stepped(t, [ threads[t] EXCEPT
                      !.pc = "extracted",
                      !.features = extract_features(threads[t].processed_tokens,
                                       TRUE, positive_words, negative_words) ])
    /\ positive_words' =
          [ w \in DOMAIN positive_words \ Range(threads[t].processed_tokens) |->
                positive_words[w] ]
    /\ UNCHANGED << negative_words, stop_words, positive_threshold,
                    negative_threshold, call_vars, clean_vars, score_vars,
                    load_vars, batch_vars, negation_vars, late_vars >>

\* Line 41: self.feature_extractor.extract_features(processed_tokens)
ThreadExtract(t) ==
    /\ threads[t].pc = "preprocessed"
    /\ threads' = Stepped(t, [ threads[t] EXCEPT
                      !.pc = "extracted",
                      !.features = extract_features(threads[t].processed_tokens,
                                       TRUE, positive_words, negative_words) ])
    /\ UNCHANGED << analyzer_vars, call_vars, clean_vars, score_vars,
                    load_vars, batch_vars, negation_vars, late_vars >>

\* Lines 44-70: the classification and the returned dict
ThreadClassify(t) ==
    /\ threads[t].pc = "extracted"
    /\ LET frame == threads[t]
           class == classify(frame.features, positive_threshold,
                             negative_threshold)
       IN  threads' = Stepped(t, [ frame EXCEPT
                          !.pc = "returned",
                          !.ret = analyze_result(
                                     [ text |-> frame.text,
                                       cleaned_text |-> frame.cleaned_text,
                                       processed_tokens |-> frame.processed_tokens,
                                       features |-> frame.features,
                                       sentiment |-> class.sentiment,
                                       confidence |-> class.confidence ]) ])
    /\ UNCHANGED << analyzer_vars, call_vars, clean_vars, score_vars,
                    load_vars, batch_vars, negation_vars, late_vars >>

\* The caller of thread t has taken the result
ThreadDone(t) ==
    /\ threads[t].pc = "returned"
    /\ threads' = [ threads EXCEPT ![t] = IdleFrame ]
    /\ UNCHANGED << analyzer_vars, call_vars, clean_vars, score_vars,
                    load_vars, batch_vars, negation_vars, late_vars >>

NextThreads ==
    \E t \in Threads :
        \/ \E text \in ThreadTexts : ThreadCall(t, text)
        \/ ThreadPreprocess(t)
        \/ ThreadExtract(t)
        \/ ThreadClassify(t)
        \/ ThreadDone(t)

SpecThreads == InitThreads /\ [][NextThreads]_vars

\* ------------------------------------------------------------------------
\* The batch analysis of the dataset file: analyze_dataset, and the Batch
\* Processing page of main
\* ------------------------------------------------------------------------
\* Cells that pd.read_csv reads as NaN under its default na_values (an
\* excerpt)
NaStrings ==
    { << >>, <<"N","/","A">>, <<"N","A">>, <<"N","U","L","L">>,
      <<"N","a","N">>, <<"n","/","a">>, <<"n","a","n">>,
      <<"n","u","l","l">> }

\* pd.read_csv on the rows of the file: a Review_Text cell of NaStrings
\* becomes the float NaN, any other cell of the model's files stays a str
read_csv(rows) ==
    [ i \in 1..Len(rows) |->
        [ rows[i] EXCEPT !.Review_Text =
            [ isna |-> @ \in NaStrings, str |-> @ ] ] ]

\* text.lower() of clean_text raises AttributeError on a float
Raises(df) == \E i \in 1..Len(df) : df[i].Review_Text.isna

\* The review texts of the rows of the dataset file
BatchTexts == { <<"n">>, <<"n","o"," ","n">>, <<"N","/","A">> }

\* What a row of the dataset file holds besides its Review_ID
RowContents ==
    [ Rating : { 3 }, Review_Text : BatchTexts,
      Sentiment : { "Positive", "Negative" } ]

\* The rows of the dataset file: Review_ID, Rating, Review_Text, Sentiment;
\* the Review_IDs are distinct and increasing, with gaps left by removed
\* reviews
Datasets ==
    UNION { { [ i \in 1..n |->
                  [ Review_ID |-> 2 * i, Rating |-> contents[i].Rating,
                    Review_Text |-> contents[i].Review_Text,
                    Sentiment |-> contents[i].Sentiment ] ] :
              contents \in [ 1..n -> RowContents ] } :
            n \in 0..MaxRows }

InitBatch ==
    /\ InitAnalyzer
    /\ IdleLate
    /\ IdleCalls
    /\ IdleClean
    /\ IdleScore
    /\ IdleLoad
    /\ IdleThreads
    /\ IdleNegation
    /\ dataset \in Datasets
    /\ results_df = << >>
    /\ batch_status = "idle"

\* The dict analyze_sentiment(text) returns
Analysis(text) ==
    analyze_result(analyze_locals(text, positive_words, negative_words,
        stop_words, positive_threshold, negative_threshold))

\* SentimentAnalyzer.analyze_dataset(csv_path): the exception of a row
\* leaves the loop and the method, and no dataframe is returned
analyze_dataset ==
    /\ batch_status = "idle"
    /\ LET df == read_csv(dataset)
       IN  IF Raises(df)
           THEN /\ results_df' = << >>
                /\ batch_status' = "raised"
           ELSE /\ results_df' =
                      [ i \in 1..Len(df) |->
                          LET row == df[i]
                              analysis == Analysis(row.Review_Text.str)
                          IN  [ Review_ID |-> row.Review_ID,
                                Rating |-> row.Rating,
                                Review_Text |-> row.Review_Text.str,
                                Actual_Sentiment |-> row.Sentiment,
                                Predicted_Sentiment |-> analysis.sentiment,
                                Confidence |-> analysis.confidence,
                                Sentiment_Score |-> analysis.sentiment_score,
                                Positive_Words |-> analysis.positive_words,
                                Negative_Words |-> analysis.negative_words ] ]
                /\ batch_status' = "returned"
    /\ UNCHANGED << dataset, analyzer_vars, call_vars, clean_vars, score_vars,
                    load_vars, threads, negation_vars, late_vars >>

\* The Start Batch Analysis button of main; Review is the text cut at 80
\* characters (longer than every text of the model), Confidence the
\* confidence formatted with one decimal
batch_processing ==
    /\ batch_status = "idle"
    /\ LET df == read_csv(dataset)
       IN  IF Raises(df)
           THEN /\ results_df' = << >>
                /\ batch_status' = "raised"
           ELSE /\ results_df' =
                      [ i \in 1..Len(df) |->
                          LET row == df[i]
                              analysis == Analysis(row.Review_Text.str)
                          IN  [ Review_ID |-> row.Review_ID,
                                Review |-> row.Review_Text.str \o <<".", ".", ".">>,
                                Actual |-> row.Sentiment,
                                Predicted |-> analysis.sentiment,
                                Confidence |-> PyRound(analysis.confidence, 10),
                                Match |-> row.Sentiment = analysis.sentiment ] ]
                /\ batch_status' = "displayed"
    /\ UNCHANGED << dataset, analyzer_vars, call_vars, clean_vars, score_vars,
                    load_vars, threads, negation_vars, late_vars >>

NextBatch == analyze_dataset \/ batch_processing

SpecBatch == InitBatch /\ [][NextBatch]_vars

\* ------------------------------------------------------------------------
\* remove_stopwords and extract_features alone, on a token list
\* ------------------------------------------------------------------------
\* Tokens of the lists: a word, negation words of the filter, stopwords
TokenVocabulary ==
    { <<"n">>, <<"n","o">>, <<"d","o","n","'","t">>, <<"s","o">>,
      <<"t","h","e">> }

InitTokens ==
    /\ InitAnalyzer
    /\ IdleCalls
    /\ IdleClean
    /\ IdleLoad
    /\ IdleThreads
    /\ IdleBatch
    /\ IdleNegation
    /\ IdleGenerate
    /\ IdleSessions
    /\ IdleTokens
    /\ token_list \in SeqsUpTo(TokenVocabulary, MaxTokens)
    /\ added = << >>
    /\ feats = calculate_sentiment_score(token_list, positive_words, negative_words)
    /\ prev_feats = feats

\* TextPreprocessor.remove_stopwords(tokens), tokens = token_list
RemoveStopwords ==
    /\ ~stopword_ret.returned
    /\ stopword_ret' =
          [ returned |-> TRUE,
            filtered_tokens |-> remove_stopwords(token_list, stop_words) ]
    /\ UNCHANGED << features_ret, analyzer_vars, call_vars, clean_vars,
                    score_vars, load_vars, threads, batch_vars, negation_vars,
                    generate_vars, web_vars >>

\* FeatureExtractor.extract_features(tokens, include_ngrams)
ExtractFeatures(include_ngrams) ==
    /\ ~features_ret.returned
    /\ features_ret' =
          [ returned |-> TRUE,
            include_ngrams |-> include_ngrams,
            features |-> extract_features(token_list, include_ngrams,
                             positive_words, negative_words) ]
    /\ UNCHANGED << stopword_ret, analyzer_vars, call_vars, clean_vars,
                    score_vars, load_vars, threads, batch_vars, negation_vars,
                    generate_vars, web_vars >>

NextTokens ==
    \/ RemoveStopwords
    \/ \E include_ngrams \in BOOLEAN : ExtractFeatures(include_ngrams)

SpecTokens == InitTokens /\ [][NextTokens]_vars

\* ------------------------------------------------------------------------
\* analyze_sentiment on texts with apostrophes
\* ------------------------------------------------------------------------
\* Characters of the short texts with apostrophes
ContractionAlphabet == { "n", "t", "'", " " }

\* The texts: every short text over the alphabet, and texts with whole
\* contractions
ContractionTexts ==
    SeqsUpTo(ContractionAlphabet, MaxTextLen) \cup
    { <<"d","o","n","'","t">>, <<"D","o","n","'","t"," ","n","o">>,
      <<"n","o"," ","w","o","n","'","t">>, <<"'","d","o","n","'","t","'">> }

InitContraction ==
    /\ InitAnalyzer
    /\ request \in ContractionTexts
    /\ pending = TRUE
    /\ NoCalls
    /\ IdleClean
    /\ IdleScore
    /\ IdleOther

NextContraction == analyze_sentiment

SpecContraction == InitContraction /\ [][NextContraction]_vars

\* ------------------------------------------------------------------------
\* analyze_sentiment with scores next to the thresholds
\* ------------------------------------------------------------------------
\* Lines of the lexicon files with scores just beyond 0.05 and -0.05
ConfidenceLines ==
    { <<"n",",","0",".","0","5","0","0","1">>,
      <<"n","o",",","-","0",".","0","5","0","0","1">>,
      <<"n",",","2">>, <<"n","o",",","-","2">>,
      <<"n",",","0",".","0","5">> }

ConfidenceFiles ==
    { [ exists |-> TRUE, lines |-> ls ] :
          ls \in SeqsUpTo(ConfidenceLines, MaxLexLines) }

InitConfidence ==
    /\ \E file \in ConfidenceFiles :
          /\ positive_words = load_lexicon(file).positive_words
          /\ negative_words = load_lexicon(file).negative_words
    /\ stop_words = InitStopWords
    /\ positive_threshold = Rat(5, 100)
    /\ negative_threshold = Rat(-5, 100)
    /\ request \in Texts
    /\ pending = TRUE
    /\ NoCalls
    /\ IdleClean
    /\ IdleScore
    /\ IdleOther

NextConfidence == analyze_sentiment

SpecConfidence == InitConfidence /\ [][NextConfidence]_vars

\* ------------------------------------------------------------------------
\* generate_reviews.py: generate_dataset
\* ------------------------------------------------------------------------
\* random.choice(seq) when the generator draws k
choice(seq, k) == seq[(k % Len(seq)) + 1]

\* A template list as the sequence of its entries <<list name, index>>; the
\* lists have 30, 30 and 20 entries, all different
Templates(name, size) == [ i \in 1..size |-> << name, i >> ]

positive_reviews == Templates("positive_reviews", 30)

negative_reviews == Templates("negative_reviews", 30)

neutral_reviews == Templates("neutral_reviews", 20)

\* One loop of generate_dataset: count rows appended to rows, the draws of
\* the two random.choice calls of row i given by the stride
GenerateRows(rows, count, templates, ratings, label, stride) ==
    rows \o [ i \in 1..count |->
                [ Review_ID |-> Len(rows) + i,
                  Rating |-> choice(ratings, (i - 1) \div stride),
                  Review_Text |-> choice(templates, (i - 1) * stride),
                  Sentiment |-> label ] ]

\* The orders random.shuffle may produce: position i takes the row at
\* (a * (i - 1) + b) mod n, for multipliers a without a common factor with
\* n = 3000
Multipliers(n) == { 1, 7, 11, n - 1 }

ShuffleOrders(n) ==
    { [ i \in 1..n |-> ((a * (i - 1) + b) % n) + 1 ] :
          a \in Multipliers(n), b \in 0..MaxShift }

\* random.shuffle(rows) when it produces the order perm
shuffle(rows, perm) == [ i \in 1..Len(rows) |-> rows[perm[i]] ]

\* Variant of ReassignIds: enumerate without its start argument
ReassignIds_zero(rows) ==
    [ i \in 1..Len(rows) |-> [ rows[i] EXCEPT !.Review_ID = i - 1 ] ]

\* for idx, review in enumerate(reviews_data, 1): review[0] = idx
ReassignIds(rows) ==
    [ i \in 1..Len(rows) |-> [ rows[i] EXCEPT !.Review_ID = i ] ]

\* Every variable but those of generate_dataset
generate_rest ==
    << analyzer_vars, call_vars, clean_vars, score_vars, load_vars, threads,
       batch_vars, negation_vars, token_vars, web_vars >>

InitGenerate ==
    /\ InitPreprocessor
    /\ IdleCalls
    /\ IdleClean
    /\ IdleScore
    /\ IdleLoad
    /\ IdleThreads
    /\ IdleBatch
    /\ IdleNegation
    /\ IdleTokens
    /\ IdleSessions
    /\ reviews_data = << >>
    /\ gen_pc = "positive"
    /\ generated = << >>
    /\ order = << >>

\* for i in range(1500): the Positive rows
GeneratePositive(stride) ==
    /\ gen_pc = "positive"
    /\ reviews_data' = GenerateRows(reviews_data, PositiveRows,
                           positive_reviews, <<4, 5, 5, 5>>, "Positive", stride)
    /\ gen_pc' = "negative"
    /\ UNCHANGED << generated, order, generate_rest >>

\* for i in range(1050): the Negative rows
GenerateNegative(stride) ==
    /\ gen_pc = "negative"
    /\ reviews_data' = GenerateRows(reviews_data, NegativeRows,
                           negative_reviews, <<1, 1, 1, 2>>, "Negative", stride)
    /\ gen_pc' = "neutral"
    /\ UNCHANGED << generated, order, generate_rest >>

\* for i in range(450): the Neutral rows, rating always 3
GenerateNeutral(stride) ==
    /\ gen_pc = "neutral"
    /\ reviews_data' = GenerateRows(reviews_data, NeutralRows,
                           neutral_reviews, <<3>>, "Neutral", stride)
    /\ gen_pc' = "shuffle"
    /\ UNCHANGED << generated, order, generate_rest >>

\* random.shuffle(reviews_data)
Shuffle(perm) ==
    /\ gen_pc = "shuffle"
    /\ reviews_data' = shuffle(reviews_data, perm)
    /\ generated' = reviews_data
    /\ order' = perm
    /\ gen_pc' = "reassign"
    /\ UNCHANGED generate_rest

\* The loop that re-assigns the IDs, and the return
Reassign ==
    /\ gen_pc = "reassign"
    /\ reviews_data' = ReassignIds(reviews_data)
    /\ gen_pc' = "returned"
    /\ UNCHANGED << generated, order, generate_rest >>

NextGenerate ==
    \/ \E stride \in 1..MaxStride :
          \/ GeneratePositive(stride)
          \/ GenerateNegative(stride)
          \/ GenerateNeutral(stride)
    \/ \E perm \in ShuffleOrders(Len(reviews_data)) : Shuffle(perm)
    \/ Reassign

SpecGenerate == InitGenerate /\ [][NextGenerate]_vars

\* ------------------------------------------------------------------------
\* web_app.py: the dataset file and the sessions
\* ------------------------------------------------------------------------
Sessions == { "a", "b" }

SetMax(S) == CHOOSE m \in S : \A n \in S : n <= m

\* df['Review_ID'].max() + 1, or 1 for an empty dataframe
NextId(df) ==
    IF Len(df) > 0
    THEN SetMax({ df[i].Review_ID : i \in 1..Len(df) }) + 1
    ELSE 1

\* The rating that save_review_to_dataset derives from the sentiment
RatingOf(predicted_sentiment) ==
    IF predicted_sentiment = "Positive" THEN 5
    ELSE IF predicted_sentiment = "Negative" THEN 1
    ELSE 3

\* new_row as a row of the dataframe
new_row(next_id, review_text, predicted_sentiment) ==
    [ Review_ID |-> next_id,
      Rating |-> RatingOf(predicted_sentiment),
      Review_Text |-> [ isna |-> FALSE, str |-> review_text ],
      Sentiment |-> predicted_sentiment ]

\* df.to_csv(DATASET_PATH, index=False): NaN is written as an empty cell
to_csv(df) ==
    [ i \in 1..Len(df) |->
        [ df[i] EXCEPT !.Review_Text = IF @.isna THEN << >> ELSE @.str ] ]

\* save_review_to_dataset on the file rows, run alone:
\* [file, success, result_id]
save_review_to_dataset(rows, review_text, predicted_sentiment) ==
    LET df == read_csv(rows)
        old_count == Len(df)
        next_id == NextId(df)
        file == to_csv(Append(df,
                    new_row(next_id, review_text, predicted_sentiment)))
        new_count == Len(read_csv(file))
    IN  [ file |-> file,
          success |-> new_count = old_count + 1,
          result_id |-> next_id ]

\* remove_reviews_from_dataset on the file rows: the rows written back
remove_reviews_from_dataset(rows, review_ids) ==
    IF review_ids = {} THEN rows
    ELSE to_csv(SelectSeq(read_csv(rows),
                          LAMBDA row : row.Review_ID \notin review_ids))

\* The entry of analysis_history for an analyzed text; review_id 0 is no
\* review_id
HistoryItem(text, sentiment) ==
    [ original_text |-> text, sentiment |-> sentiment,
      saved_to_dataset |-> FALSE, review_id |-> 0 ]

NoCard == [ sentiment |-> "none" ]

NoReturn == [ success |-> FALSE, result_id |-> 0 ]

\* Lines 382-397 of display_result_card: the first entry with the text of
\* the result is marked as saved, or a marked copy is appended
UpdateHistory(history, card, result_id) ==
    LET found == { i \in 1..Len(history) :
                     history[i].original_text = card.original_text }
    IN  IF found # {}
        THEN LET idx == CHOOSE i \in found : \A j \in found : i <= j
             IN  [ history EXCEPT ![idx] =
                     [ @ EXCEPT !.saved_to_dataset = TRUE,
                                !.review_id = result_id ] ]
        ELSE Append(history,
                 [ card EXCEPT !.saved_to_dataset = TRUE,
                               !.review_id = result_id ])

\* saved_review_ids of the Clear Session History button
SavedReviewIds(history) ==
    { history[i].review_id : i \in { j \in 1..Len(history) :
          history[j].saved_to_dataset /\ history[j].review_id # 0 } }

\* A session after lines 214-219; saved is history: the Review_IDs of the
\* rows the session saved since its history was cleared
NewSession ==
    [ analysis_history |-> << >>, card |-> NoCard, pc |-> "idle",
      df |-> << >>, old_count |-> 0, next_id |-> 0, ret |-> NoReturn,
      saved |-> {} ]

\* The texts the users analyze
WebTexts == { <<"n">>, <<"N","/","A">> }

\* The dataset files the application starts with
WebDatasets ==
    { rows \in Datasets :
          \A i \in 1..Len(rows) :
              /\ rows[i].Sentiment = "Positive"
              /\ rows[i].Review_Text \in WebTexts }

\* The analyzer of load_analyzer, with a lexicon of two lines
WebAnalyzer ==
    LET lex == load_lexicon([ exists |-> TRUE,
                   lines |-> << <<"n",",","2">>, <<"n","o",",","-","2">> >> ])
    IN  /\ positive_words = lex.positive_words
        /\ negative_words = lex.negative_words
        /\ stop_words = InitStopWords
        /\ positive_threshold = Rat(5, 100)
        /\ negative_threshold = Rat(-5, 100)

\* Every variable but the dataset file and those of the sessions
web_rest ==
    << results_df, batch_status, analyzer_vars, call_vars, clean_vars,
       score_vars, load_vars, threads, negation_vars, token_vars,
       generate_vars >>

IdleWebRest ==
    /\ IdleCalls
    /\ IdleClean
    /\ IdleScore
    /\ IdleLoad
    /\ IdleThreads
    /\ IdleNegation
    /\ IdleTokens
    /\ IdleGenerate
    /\ results_df = << >>
    /\ batch_status = "idle"

\* Number of entries in the histories of the sessions of S
RECURSIVE HistoryTotal(_)
HistoryTotal(S) ==
    IF S = {} THEN 0
    ELSE LET s == CHOOSE x \in S : TRUE
         IN  Len(sessions[s].analysis_history) + HistoryTotal(S \ { s })

InitDataset ==
    /\ WebAnalyzer
    /\ IdleWebRest
    /\ dataset \in WebDatasets
    /\ sessions = [ s \in Sessions |-> NewSession ]
    /\ last_call = NoCall

\* The Analyze Sentiment button: the result is appended to the history and
\* its card is displayed
AnalyzeReview(s, text) ==
    /\ Strip(text) # << >>
    /\ HistoryTotal(Sessions) < MaxHistory
    /\ LET item == HistoryItem(text, Analysis(text).sentiment)
       IN  sessions' = [ sessions EXCEPT
               ![s].analysis_history = Append(@, item),
               ![s].card = item ]
    /\ last_call' = NoCall
    /\ UNCHANGED << dataset, web_rest >>

\* The Save This Review to Dataset button of the displayed card, the whole
\* handler at once
SaveReview(s) ==
    /\ sessions[s].card # NoCard
    /\ NextId(read_csv(dataset)) <= MaxId
    /\ LET card == sessions[s].card
           call == save_review_to_dataset(dataset, card.original_text,
                                          card.sentiment)
       IN  /\ dataset' = call.file
           /\ sessions' = [ sessions EXCEPT
                 ![s].analysis_history =
                     IF call.success
                     THEN UpdateHistory(@, card, call.result_id) ELSE @,
                 ![s].card = IF call.success THEN NoCard ELSE @,
                 ![s].saved =
                     IF call.success THEN @ \cup { call.result_id } ELSE @ ]
           /\ last_call' = [ op |-> "save", session |-> s,
                             before |-> dataset,
                             success |-> call.success,
                             result_id |-> call.result_id,
                             saved |-> sessions[s].saved ]
    /\ UNCHANGED web_rest

\* The Clear Session History button
ClearHistory(s) ==
    /\ sessions[s].analysis_history # << >>
    /\ LET saved_review_ids == SavedReviewIds(sessions[s].analysis_history)
       IN  dataset' = remove_reviews_from_dataset(dataset, saved_review_ids)
    /\ sessions' = [ sessions EXCEPT
          ![s].analysis_history = << >>,
          ![s].card = NoCard,
          ![s].saved = {} ]
    /\ last_call' = [ op |-> "clear", session |-> s, before |-> dataset,
                      success |-> TRUE, result_id |-> 0,
                      saved |-> sessions[s].saved ]
    /\ UNCHANGED web_rest

NextDataset ==
    \E s \in Sessions :
        \/ \E text \in WebTexts : AnalyzeReview(s, text)
        \/ SaveReview(s)
        \/ ClearHistory(s)

SpecDataset == InitDataset /\ [][NextDataset]_vars

\* ------------------------------------------------------------------------
\* web_app.py: two sessions in save_review_to_dataset at the same time
\* ------------------------------------------------------------------------
\* The texts whose cards the two sessions save
ConcurrentTexts == { <<"n">>, <<"n","o">> }

\* A session that analyzed text and displays its card
Displaying(text) ==
    LET item == HistoryItem(text, Analysis(text).sentiment)
    IN  [ NewSession EXCEPT !.analysis_history = << item >>,
                            !.card = item,
                            !.pc = "clicked" ]

InitConcurrent ==
    /\ WebAnalyzer
    /\ IdleWebRest
    /\ dataset \in WebDatasets
    /\ sessions \in [ Sessions -> { Displaying(text) : text \in ConcurrentTexts } ]
    /\ last_call = [ op |-> "concurrent", before |-> dataset ]

\* Lines 247-253: the file is read, old_count and next_id are computed
SaveRead(s) ==
    /\ sessions[s].pc = "clicked"
    /\ LET df == read_csv(dataset)
       IN  sessions' = [ sessions EXCEPT
               ![s].df = df,
               ![s].old_count = Len(df),
               ![s].next_id = NextId(df),
               ![s].pc = "read" ]
    /\ UNCHANGED << dataset, last_call, web_rest >>

\* Lines 255-275: the row is appended to the dataframe read before and the
\* whole file is written
SaveWrite(s) ==
    /\ sessions[s].pc = "read"
    /\ LET card == sessions[s].card
       IN  dataset' = to_csv(Append(sessions[s].df,
               new_row(sessions[s].next_id, card.original_text,
                       card.sentiment)))
    /\ sessions' = [ sessions EXCEPT ![s].pc = "written" ]
    /\ UNCHANGED << last_call, web_rest >>

\* Lines 277-285 and the rest of the handler of the button: the file is
\* read again and its length is compared with old_count + 1
SaveVerify(s) ==
    /\ sessions[s].pc = "written"
    /\ LET new_count == Len(read_csv(dataset))
           success == new_count = sessions[s].old_count + 1
           card == sessions[s].card
       IN  sessions' = [ sessions EXCEPT
               ![s].ret = [ success |-> success,
                            result_id |-> IF success THEN sessions[s].next_id
                                          ELSE 0 ],
               ![s].analysis_history =
                   IF success
                   THEN UpdateHistory(@, card, sessions[s].next_id) ELSE @,
               ![s].card = IF success THEN NoCard ELSE @,
               ![s].saved =
                   IF success THEN @ \cup { sessions[s].next_id } ELSE @,
               ![s].pc = "idle" ]
    /\ UNCHANGED << dataset, last_call, web_rest >>

NextConcurrent ==
    \E s \in Sessions : SaveRead(s) \/ SaveWrite(s) \/ SaveVerify(s)

SpecConcurrent == InitConcurrent /\ [][NextConcurrent]_vars

\* ------------------------------------------------------------------------
\* Properties
\* ------------------------------------------------------------------------
Labels == { "Positive", "Negative", "Neutral" }

\* A call of analyze_sentiment has returned; locals and result are its
\* locals and its returned dict
Returned == locals # NoLocals

\* The call that returned last was given request
Served == ~pending /\ Returned

\* x > 0.05 and x < -0.05 for a rational x
Above005(x) == 20 * x.num > x.den

Below005(x) == 20 * x.num < -x.den

\* C1: the label is Positive exactly when normalized_score > 0.05, Negative
\* exactly when normalized_score < -0.05 and Neutral exactly otherwise; so a
\* normalized_score of exactly 0.05 or -0.05 is Neutral.
C1_LabelByThreshold ==
    Returned =>
        LET ns == locals.features.normalized_score
        IN  /\ result.sentiment \in Labels
            /\ result.sentiment = locals.sentiment
            /\ (result.sentiment = "Positive") <=> Above005(ns)
            /\ (result.sentiment = "Negative") <=> Below005(ns)
            /\ (result.sentiment = "Neutral") <=> (~Above005(ns) /\ ~Below005(ns))

\* A text whose normalized_score is exactly 0.05 was classified Neutral
C1_Witness ==
    /\ Returned
    /\ locals.features.normalized_score = Rat(1, 20)
    /\ locals.features.token_count > 0
    /\ result.sentiment = "Neutral"

\* C2: the confidence returned by analyze_sentiment is in [0, 100].
C2_ConfidenceInRange ==
    Returned =>
        /\ result.confidence.num >= 0
        /\ result.confidence.num <= 100 * result.confidence.den

\* A text with |normalized_score| * 100 above 100 was returned with
\* confidence 100
C2_Witness ==
    /\ Returned
    /\ Abs(locals.features.normalized_score.num) > locals.features.normalized_score.den
    /\ result.confidence = Rat(100, 1)

\* The confidence as C3 states it, from the label, the normalized score and
\* the two counts
C3_Expected(label, ns, positive_count, negative_count) ==
    LET scaled == [ num |-> 100 * Abs(ns.num), den |-> ns.den ]
        raw == IF label = "Neutral" THEN [ num |-> 50, den |-> 1 ]
               ELSE IF scaled.num >= 100 * scaled.den
                    THEN [ num |-> 100, den |-> 1 ]
                    ELSE scaled
        boosted == [ num |-> raw.num + 20 * raw.den, den |-> raw.den ]
    IN  IF positive_count > 0 \/ negative_count > 0
        THEN IF boosted.num >= 100 * boosted.den
             THEN [ num |-> 100, den |-> 1 ] ELSE boosted
        ELSE raw

\* C3: confidence = min(raw + 20, 100) when positive_count > 0 or
\* negative_count > 0 and confidence = raw otherwise, where raw is
\* min(|normalized_score| * 100, 100) for Positive and Negative and 50 for
\* Neutral; the returned confidence is this value rounded to 2 decimals.
C3_ConfidenceFormula ==
    Returned =>
        LET f == locals.features
            e == C3_Expected(locals.sentiment, f.normalized_score,
                             f.positive_count, f.negative_count)
            c == locals.confidence
            r == result.confidence
        IN  /\ c.num * e.den = e.num * c.den
            \* |r - c| <= 1/200
            /\ 200 * Abs(r.num * c.den - c.num * r.den) <= r.den * c.den

\* A Positive text with normalized_score 0.5 and one lexicon match has
\* confidence 50 + 20
C3_Witness ==
    /\ Returned
    /\ locals.sentiment = "Positive"
    /\ locals.features.normalized_score = Rat(1, 2)
    /\ locals.features.positive_count > 0
    /\ locals.confidence = Rat(70, 1)

\* C4: for the empty string and any whitespace-only text the result is
\* Neutral, confidence 50, sentiment_score 0 and all three word counts 0,
\* whatever the lexicon.
C4_EmptyInput ==
    (Served /\ \A i \in 1..Len(request) : IsSpace(request[i])) =>
        /\ result.sentiment = "Neutral"
        /\ result.confidence = Rat(50, 1)
        /\ result.sentiment_score = Zero
        /\ result.positive_words = 0
        /\ result.negative_words = 0
        /\ result.total_words = 0

\* A text of two blanks was analyzed with a lexicon that holds the empty
\* word
C4_Witness ==
    /\ Served
    /\ request = << " ", " " >>
    /\ << >> \in DOMAIN positive_words
    /\ result.total_words = 0

\* C5: a call of analyze_sentiment(t) returns what the first call of
\* analyze_sentiment(t) on this analyzer returned, whatever was analyzed
\* before and in between.
C5_SameTextSameResult ==
    (Served /\ request \in ProbeTexts) => result = first_result[request]

\* A text was analyzed again after every probe text had been analyzed, with
\* different outcomes
C5_Witness ==
    /\ Served
    /\ repeated
    /\ \A t \in ProbeTexts : first_result[t] # NoResult
    /\ \E t \in ProbeTexts : first_result[t].sentiment # result.sentiment

ResultFields ==
    { "original_text", "cleaned_text", "processed_tokens", "sentiment",
      "confidence", "sentiment_score", "positive_words", "negative_words",
      "total_words" }

\* C6: the result of every call of analyze_sentiment has the nine fields,
\* a sentiment among Positive, Negative, Neutral and the input text
\* unchanged as original_text.
C6_WellFormedResult ==
    Served =>
        /\ DOMAIN result = ResultFields
        /\ result.sentiment \in Labels
        /\ result.original_text = request

\* A text of punctuation only was analyzed: nothing of it is left after
\* cleaning, and it is returned unchanged
C6_Witness ==
    /\ Served
    /\ request = << "!", "!" >>
    /\ result.cleaned_text = << >>
    /\ result.processed_tokens = << >>
    /\ result.original_text = << "!", "!" >>

\* C7: clean_text(clean_text(x)) = clean_text(x) for every string x.
C7_CleanIdempotent ==
    clean_calls = 2 => clean_ret = clean_arg

LowerLetters == Range(Lowers)

\* C8: the output of clean_text holds only lowercase ASCII letters and
\* single spaces, with no space at either end.
C8_CleanedShape ==
    clean_calls >= 1 =>
        /\ \A i \in 1..Len(clean_ret) : clean_ret[i] \in LowerLetters \cup { " " }
        /\ clean_ret # << >> => (clean_ret[1] # " " /\ clean_ret[Len(clean_ret)] # " ")
        /\ \A i \in 1..(Len(clean_ret) - 1) :
              ~(clean_ret[i] = " " /\ clean_ret[i + 1] = " ")

\* A string with a leading blank, an uppercase letter, a tab next to a
\* blank and a lowercase letter was cleaned
C8_Witness ==
    /\ clean_calls = 1
    /\ clean_arg = << " ", "H", "\t", " ", "w" >>
    /\ clean_ret = << "h", " ", "w" >>

\* A token was added to the token list
Grown == token_list # << >>

AddedPositive == Grown /\ added \in DOMAIN positive_words

AddedNegative ==
    Grown /\ added \in DOMAIN negative_words /\ added \notin DOMAIN positive_words

\* C9 as stated: adding a token of strictly positive score does not
\* decrease normalized_score, adding one of strictly negative score does
\* not increase it.
C9_Monotone ==
    /\ AddedPositive =>
          RLe(prev_feats.normalized_score, feats.normalized_score)
    /\ AddedNegative =>
          RLe(feats.normalized_score, prev_feats.normalized_score)

\* C9 amended: adding a token of strictly positive score does not decrease
\* total_score, and does not decrease normalized_score when the
\* normalized_score before the addition is <= 0; adding a token of strictly
\* negative score does not increase total_score, and does not increase
\* normalized_score when the normalized_score before the addition is >= 0.
C9_MonotoneAmended ==
    /\ AddedPositive =>
          /\ RLe(prev_feats.total_score, feats.total_score)
          /\ prev_feats.normalized_score.num <= 0 =>
                RLe(prev_feats.normalized_score, feats.normalized_score)
    /\ AddedNegative =>
          /\ RLe(feats.total_score, prev_feats.total_score)
          /\ prev_feats.normalized_score.num >= 0 =>
                RLe(feats.normalized_score, prev_feats.normalized_score)

\* A negative token was added to a list that holds a positive token and
\* has a positive normalized_score, and the normalized_score went down
C9_Witness ==
    /\ AddedNegative
    /\ prev_feats.normalized_score.num > 0
    /\ RLt(feats.normalized_score, prev_feats.normalized_score)
    /\ \E i \in 1..Len(token_list) : token_list[i] \in DOMAIN positive_words

\* Sum of a sequence of rationals
RECURSIVE SumRat(_)
SumRat(xs) == IF xs = << >> THEN Zero ELSE RAdd(Head(xs), SumRat(Tail(xs)))

\* The score of every token found in the dict d, in absolute value, and 0
\* for the others and for the tokens found in the dict except
Contributions(toks, d, except) ==
    [ i \in 1..Len(toks) |->
        IF toks[i] \in DOMAIN d /\ toks[i] \notin except
        THEN RAbs(d[toks[i]]) ELSE Zero ]

ScoresAre(positive_sum, negative_sum) ==
    /\ feats.positive_score = positive_sum
    /\ feats.negative_score = negative_sum
    /\ feats.total_score = RSub(positive_sum, negative_sum)
    /\ feats.token_count = Len(token_list)
    /\ Len(token_list) > 0 =>
          feats.normalized_score.num * feats.total_score.den * Len(token_list)
              = feats.total_score.num * feats.normalized_score.den
    /\ Len(token_list) = 0 => feats.normalized_score = Zero

IsEntry(raw_line) ==
    LET line == Strip(raw_line)
        fields == Split(line, ",")
    IN  /\ line # << >>
        /\ Head(line) # "#"
        /\ Len(fields) = 2
        /\ ParseFloat(fields[2]).ok

EntryWord(raw_line) == Split(Strip(raw_line), ",")[1]

EntryScore(raw_line) == ParseFloat(Split(Strip(raw_line), ",")[2]).value

\* The lines of the file that was loaded
FileLines == lexicon_file.lines

\* The positions of the entries of the file for the word
EntriesOf(word) ==
    { i \in 1..Len(FileLines) :
        IsEntry(FileLines[i]) /\ EntryWord(FileLines[i]) = word }

\* C11: after load_lexicon every score of the positive map is > 0, every
\* score of the negative map is < 0, and a line with score 0 adds nothing:
\* a word of the positive map has a line with a score > 0 in the file, a
\* word of the negative map a line with a score < 0.
C11_SignOfEntries ==
    constructed =>
        /\ \A w \in DOMAIN positive_words :
              /\ RLt(Zero, positive_words[w])
              /\ \E i \in EntriesOf(w) : RLt(Zero, EntryScore(FileLines[i]))
        /\ \A w \in DOMAIN negative_words :
              /\ RLt(negative_words[w], Zero)
              /\ \E i \in EntriesOf(w) : RLt(EntryScore(FileLines[i]), Zero)

\* A file with a zero score for a word that is in neither map, and another
\* entry that was loaded
C11_Witness ==
    /\ constructed
    /\ DOMAIN positive_words \cup DOMAIN negative_words # { }
    /\ \E i \in 1..Len(FileLines) :
          /\ IsEntry(FileLines[i])
          /\ EntryScore(FileLines[i]) = Zero
          /\ EntryWord(FileLines[i]) \notin
                 DOMAIN positive_words \cup DOMAIN negative_words

\* C12: after load_lexicon no word is a key of both the positive and the
\* negative map, whatever the file lists.
C12_DisjointMaps ==
    constructed => DOMAIN positive_words \cap DOMAIN negative_words = { }

\* The positions of the entries for the word that load_lexicon stores:
\* those with a score other than 0
StoredEntriesOf(word) ==
    { i \in EntriesOf(word) : EntryScore(FileLines[i]) # Zero }

\* The last of a non-empty set of positions
Last(positions) == CHOOSE i \in positions : \A j \in positions : j <= i

\* C13: a word with several valid lines in the file is in one map only,
\* under the score of its last valid line.
C13_LastOccurrenceWins ==
    constructed =>
        \A i \in 1..Len(FileLines) :
            IsEntry(FileLines[i]) =>
                LET word == EntryWord(FileLines[i])
                    stored == StoredEntriesOf(word)
                    score == EntryScore(FileLines[Last(stored)])
                IN  Cardinality(stored) > 1 =>
                        IF RLt(Zero, score)
                        THEN /\ word \in DOMAIN positive_words
                             /\ positive_words[word] = score
                             /\ word \notin DOMAIN negative_words
                        ELSE /\ word \in DOMAIN negative_words
                             /\ negative_words[word] = score
                             /\ word \notin DOMAIN positive_words

\* C14: an analyzer constructed with a lexicon path at which there is no
\* file has an empty lexicon, and every call of analyze_sentiment on it
\* returns Neutral with confidence 50 and no positive or negative word.
C14_MissingLexicon ==
    (constructed /\ ~lexicon_file.exists) =>
        /\ positive_words = EmptyDict
        /\ negative_words = EmptyDict
        /\ Returned =>
              /\ result.sentiment = "Neutral"
              /\ result.confidence = Rat(50, 1)
              /\ result.positive_words = 0
              /\ result.negative_words = 0

\* A text with a token was analyzed again by an analyzer constructed
\* without a file
C14_Witness ==
    /\ constructed
    /\ ~lexicon_file.exists
    /\ Served
    /\ repeated
    /\ result.total_words > 0

\* The positions of the entries for the word with a score > 0, and of
\* those with a score < 0
PositiveEntriesOf(word) ==
    { i \in EntriesOf(word) : RLt(Zero, EntryScore(FileLines[i])) }

NegativeEntriesOf(word) ==
    { i \in EntriesOf(word) : RLt(EntryScore(FileLines[i]), Zero) }

\* The words of the entries of the file
FileWords ==
    { EntryWord(FileLines[i]) :
        i \in { j \in 1..Len(FileLines) : IsEntry(FileLines[j]) } }

\* The file has a line that is blank, a comment or malformed
HasSkippedLine == \E i \in 1..Len(FileLines) : ~IsEntry(FileLines[i])

\* C15: a blank line, a comment line or a malformed line (no comma, two
\* commas, a score that is no number) changes neither map and does not stop
\* the loading: the maps hold what the entries before and after it give,
\* and nothing else.
C15_SkippedLines ==
    (constructed /\ lexicon_file.exists /\ HasSkippedLine) =>
        /\ DOMAIN positive_words =
              { w \in FileWords : PositiveEntriesOf(w) # { } }
        /\ DOMAIN negative_words =
              { w \in FileWords : NegativeEntriesOf(w) # { } }
        /\ \A w \in DOMAIN positive_words :
              positive_words[w] =
                  EntryScore(FileLines[Last(PositiveEntriesOf(w))])
        /\ \A w \in DOMAIN negative_words :
              negative_words[w] =
                  EntryScore(FileLines[Last(NegativeEntriesOf(w))])

\* A file whose first line has two commas or a score that is no number,
\* and whose second line was loaded
C15_Witness ==
    /\ constructed
    /\ Len(FileLines) = 2
    /\ LET fields == Split(Strip(FileLines[1]), ",")
       IN  \/ Len(fields) = 3
           \/ Len(fields) = 2 /\ ~ParseFloat(fields[2]).ok
    /\ IsEntry(FileLines[2])
    /\ EntryWord(FileLines[2]) \in DOMAIN negative_words

NoLexiconMatch ==
    \A i \in 1..Len(locals.processed_tokens) :
        locals.processed_tokens[i] \notin
            DOMAIN positive_words \cup DOMAIN negative_words

\* C18: when no processed token is a key of either map, positive_score,
\* negative_score and normalized_score are 0, the label is Neutral and the
\* confidence is exactly 50: the boost of 20 is not applied.
C18_NoMatchNeutral ==
    (Returned /\ NoLexiconMatch) =>
        /\ locals.features.positive_score = Zero
        /\ locals.features.negative_score = Zero
        /\ locals.features.normalized_score = Zero
        /\ result.sentiment_score = Zero
        /\ result.sentiment = "Neutral"
        /\ result.confidence = Rat(50, 1)

\* A text with two tokens, none of them in the lexicon, was analyzed by an
\* analyzer whose two maps are not empty
C18_Witness ==
    /\ Served
    /\ NoLexiconMatch
    /\ Len(locals.processed_tokens) = 2
    /\ DOMAIN positive_words # { }
    /\ DOMAIN negative_words # { }

\* A token that is in neither map
Unscored(token) ==
    token \notin DOMAIN positive_words \cup DOMAIN negative_words

\* The last step replaced a token that is in neither map by a negation
\* marker that is in neither map
NegationReplaced ==
    /\ replaced # 0
    /\ Unscored(prev_tokens[replaced])
    /\ token_list[replaced] \in NegationMarkers
    /\ Unscored(token_list[replaced])

\* C19: replacing a token that is in neither map by a negation marker that
\* is in neither map leaves positive_score, negative_score,
\* normalized_score, the label and the confidence as they were.
C19_NegationInert ==
    NegationReplaced =>
        /\ verdict.features.positive_score = prev_verdict.features.positive_score
        /\ verdict.features.negative_score = prev_verdict.features.negative_score
        /\ verdict.features.normalized_score =
              prev_verdict.features.normalized_score
        /\ verdict.sentiment = prev_verdict.sentiment
        /\ verdict.confidence = prev_verdict.confidence

\* The replacement raised negation_count from 0 in a list that is not
\* Neutral
C19_Witness ==
    /\ NegationReplaced
    /\ prev_verdict.features.negation_count = 0
    /\ verdict.features.negation_count = 1
    /\ verdict.sentiment # "Neutral"

\* The dict that analyze_sentiment(text) returns when it is the only call
\* running on the analyzer
AloneResult(text) ==
    analyze_result(analyze_locals(text, positive_words, negative_words,
        stop_words, positive_threshold, negative_threshold))

\* C17: under every interleaving of the calls of the threads on the shared
\* analyzer, a call returns the result it returns when run alone.
C17_ConcurrentCalls ==
    \A t \in Threads :
        threads[t].pc = "returned" =>
            threads[t].ret = AloneResult(threads[t].text)

\* A call returned a result with a lexicon match after steps taken while
\* another call, of another text, was in flight and still is
C17_Witness ==
    \E t \in Threads : \E u \in Threads \ { t } :
        /\ threads[t].pc = "returned"
        /\ threads[t].overlapped
        /\ threads[t].ret.positive_words + threads[t].ret.negative_words > 0
        /\ threads[u].pc = "extracted"
        /\ threads[u].overlapped
        /\ threads[u].text # threads[t].text

\* The predicted label of a result row of either batch analysis
PredictedOf(row) ==
    IF "Predicted" \in DOMAIN row THEN row.Predicted
    ELSE row.Predicted_Sentiment

\* C20: the batch analysis of a dataset of N rows gives N result rows, row
\* i with the Review_ID of row i of the dataset and with the label that
\* analyze_sentiment gives to the text of row i alone.
C20_BatchIsMap ==
    batch_status # "idle" =>
        /\ Len(results_df) = Len(dataset)
        /\ \A i \in 1..Len(results_df) :
              /\ results_df[i].Review_ID = dataset[i].Review_ID
              /\ PredictedOf(results_df[i]) =
                    AloneResult(dataset[i].Review_Text).sentiment

\* The token added last is a key of both maps
AddedBoth ==
    /\ Grown
    /\ added \in DOMAIN positive_words
    /\ added \in DOMAIN negative_words

\* C22: a token that is a key of both maps is scored as positive only: it
\* adds its positive score to positive_score and 1 to positive_count, and
\* nothing to negative_score and negative_count.
C22_BothMapsPositiveOnly ==
    AddedBoth =>
        /\ feats.positive_score =
              RAdd(prev_feats.positive_score, positive_words[added])
        /\ feats.positive_count = prev_feats.positive_count + 1
        /\ feats.negative_score = prev_feats.negative_score
        /\ feats.negative_count = prev_feats.negative_count

\* A token of both maps was added to a list that has a positive match
C22_Witness ==
    /\ AddedBoth
    /\ Len(token_list) >= 2
    /\ prev_feats.positive_count >= 1
    /\ feats.negative_count = 0

\* a is b with some elements left out
RECURSIVE IsSubsequence(_, _)
IsSubsequence(a, b) ==
    IF a = << >> THEN TRUE
    ELSE IF b = << >> THEN FALSE
    ELSE IF Head(a) = Head(b) THEN IsSubsequence(Tail(a), Tail(b))
    ELSE IsSubsequence(a, Tail(b))

\* The number of occurrences of x in the sequence
Occurrences(seq, x) == Cardinality({ i \in 1..Len(seq) : seq[i] = x })

\* C23: remove_stopwords returns a subsequence of its input, no longer than
\* the input and in the order of the input, in which every occurrence of a
\* word of the negation set is retained.
C23_StopwordsSubsequence ==
    stopword_ret.returned =>
        /\ Len(stopword_ret.filtered_tokens) <= Len(token_list)
        /\ IsSubsequence(stopword_ret.filtered_tokens, token_list)
        /\ \A w \in FilterNegationWords :
              Occurrences(stopword_ret.filtered_tokens, w) =
                  Occurrences(token_list, w)

\* A stopword was removed from between a contraction and a repeated
\* negation word, which were retained
C23_Witness ==
    /\ stopword_ret.returned
    /\ token_list = << <<"d","o","n","'","t">>, <<"t","h","e">>, <<"n","o">> >>
    /\ stopword_ret.filtered_tokens = << <<"d","o","n","'","t">>, <<"n","o">> >>

\* max(n, 0)
AtLeastZero(n) == IF n > 0 THEN n ELSE 0

\* C24: with include_ngrams set, the bigrams are the contiguous windows of
\* two tokens joined by one space, in the order of their first token, and
\* bigram_count is max(token_count - 1, 0); with include_ngrams unset the
\* features have no bigram field.
C24_Bigrams ==
    features_ret.returned =>
        LET features == features_ret.features
        IN  IF features_ret.include_ngrams
            THEN /\ features.bigram_count = AtLeastZero(features.token_count - 1)
                 /\ Len(features.bigrams) = features.bigram_count
                 /\ \A i \in 1..Len(features.bigrams) :
                       features.bigrams[i] =
                           token_list[i] \o << " " >> \o token_list[i + 1]
            ELSE /\ "bigrams" \notin DOMAIN features
                 /\ "bigram_count" \notin DOMAIN features

\* Three tokens gave two bigrams
C24_Witness ==
    /\ features_ret.returned
    /\ features_ret.include_ngrams
    /\ Len(token_list) = 3
    /\ features_ret.features.bigram_count = 2
    /\ features_ret.features.bigrams[2] = <<"n","o"," ","n">>

\* The string has an apostrophe
HasApostrophe(str) == \E i \in 1..Len(str) : str[i] = "'"

\* The entries with an apostrophe of the filter's negation set and of the
\* marker set of detect_negation
Contractions ==
    { w \in FilterNegationWords \cup NegationMarkers : HasApostrophe(w) }

\* C25: no token that preprocess produces has an apostrophe, so no token
\* is one of the contraction entries of the two negation sets, and
\* negation_count counts the markers without apostrophe only.
C25_ContractionsUnreachable ==
    Returned =>
        LET pre == preprocess(locals.text, stop_words)
        IN  /\ ~HasApostrophe(result.cleaned_text)
            /\ \A i \in 1..Len(pre.tokens) :
                  /\ ~HasApostrophe(pre.tokens[i])
                  /\ pre.tokens[i] \notin Contractions
            /\ \A i \in 1..Len(result.processed_tokens) :
                  /\ ~HasApostrophe(result.processed_tokens[i])
                  /\ result.processed_tokens[i] \notin Contractions
            /\ locals.features.negation_count =
                  Cardinality({ i \in 1..Len(result.processed_tokens) :
                      result.processed_tokens[i] \in
                          NegationMarkers \ Contractions })

\* The text "Don't no" was analyzed: its contraction lost the apostrophe
\* and only "no" was counted
C25_Witness ==
    /\ Served
    /\ request = <<"D","o","n","'","t"," ","n","o">>
    /\ result.processed_tokens = << <<"d","o","n","t">>, <<"n","o">> >>
    /\ locals.features.negation_count = 1

\* The returned confidence is the number n
ConfidenceIs(n) == result.confidence = Rat(n, 1)

\* A token of the call matched a lexicon entry
Matched == result.positive_words + result.negative_words > 0

\* The parts of C26 about the polarity and about the Neutral results
EvidenceOfPolarity ==
    /\ result.sentiment = "Positive" => result.positive_words >= 1
    /\ result.sentiment = "Negative" => result.negative_words >= 1
    /\ result.sentiment # "Neutral" =>
          /\ Matched
          /\ RLt(Rat(25, 1), locals.confidence)
    /\ result.sentiment = "Neutral" =>
          /\ ~Matched => ConfidenceIs(50)
          /\ Matched => ConfidenceIs(70)

C27_WordCounts ==
    Returned =>
        /\ result.total_words = Len(result.processed_tokens)
        /\ result.positive_words >= 0
        /\ result.negative_words >= 0
        /\ result.positive_words + result.negative_words <= result.total_words

\* A text with a positive and a negative word was analyzed: each of the two
\* processed tokens is counted once
C27_Witness ==
    /\ Served
    /\ Len(result.processed_tokens) = 2
    /\ result.positive_words = 1
    /\ result.negative_words = 1
    /\ result.total_words = 2

\* Rating, text and label of a row
Content(row) == << row.Rating, row.Review_Text, row.Sentiment >>

\* The row was appended by the loop of its label
WellFormed(row) ==
    \/ /\ row.Sentiment = "Positive"
       /\ row.Rating \in { 4, 5 }
       /\ row.Review_Text[1] = "positive_reviews"
    \/ /\ row.Sentiment = "Negative"
       /\ row.Rating \in { 1, 2 }
       /\ row.Review_Text[1] = "negative_reviews"
    \/ /\ row.Sentiment = "Neutral"
       /\ row.Rating = 3
       /\ row.Review_Text[1] = "neutral_reviews"

\* C21: the Review_IDs that generate_dataset returns are 1..N in row
\* order, N = 3000, and every row has the rating, the text and the label
\* it was generated with: the rows are the generated ones in the order of
\* the shuffle.
C21_SequentialIds ==
    gen_pc = "returned" =>
        /\ Len(reviews_data) = 3000
        /\ \A i \in 1..3000 : reviews_data[i].Review_ID = i
        /\ Len(generated) = 3000
        /\ { order[i] : i \in 1..3000 } = 1..3000
        /\ \A i \in 1..3000 :
              /\ Content(reviews_data[i]) = Content(generated[order[i]])
              /\ WellFormed(reviews_data[i])

\* A dataset was returned whose second row was generated last
C21_Witness ==
    /\ gen_pc = "returned"
    /\ order[2] = 3000
    /\ reviews_data[2].Review_ID = 2
    /\ reviews_data[2].Sentiment = "Neutral"
    /\ reviews_data[1].Sentiment = "Positive"

\* The Review_IDs of the rows
IdsOf(rows) == { rows[i].Review_ID : i \in 1..Len(rows) }

\* No two rows share a Review_ID
IdsDistinct(rows) ==
    \A i, j \in 1..Len(rows) :
        rows[i].Review_ID = rows[j].Review_ID => i = j

\* The last call was a save that reported success
Saved == last_call.op = "save" /\ last_call.success

\* The save appended one row with the next Review_ID
AppendedNextId ==
    /\ Len(dataset) = Len(last_call.before) + 1
    /\ dataset[Len(dataset)].Review_ID =
          IF last_call.before = << >> THEN 1
          ELSE SetMax(IdsOf(last_call.before)) + 1

\* C28: with saves and removals made one at a time, the Review_IDs of the
\* dataset stay pairwise distinct, and a successful save appends one row
\* whose ID is the largest ID + 1 (1 for an empty dataset) and leaves the
\* rows that were there unchanged.
C28_SequentialSaves ==
    /\ IdsDistinct(dataset)
    /\ Saved =>
          /\ AppendedNextId
          /\ SubSeq(dataset, 1, Len(last_call.before)) = last_call.before

\* The last call was Clear Session History
Cleared == last_call.op = "clear"

\* C30: after Clear Session History no row that the session saved is left
\* in the dataset, every row of the dataset that the session did not save
\* is still there, and the history of the session is empty.
C30_ClearRemovesOwn ==
    Cleared =>
        /\ IdsOf(dataset) \cap last_call.saved = {}
        /\ IdsOf(last_call.before) \ last_call.saved \subseteq IdsOf(dataset)
        /\ sessions[last_call.session].analysis_history = << >>

\* Both sessions have left save_review_to_dataset
Finished ==
    /\ last_call.op = "concurrent"
    /\ \A s \in Sessions : sessions[s].pc = "idle"

\* The sessions whose save reported success
Successful == { s \in Sessions : sessions[s].ret.success }

\* Row i of the dataset is the review that session s saved
Holds(i, s) ==
    /\ dataset[i].Review_ID = sessions[s].ret.result_id
    /\ dataset[i].Review_Text = sessions[s].analysis_history[1].original_text

\* C29: when two concurrent saves have finished, every save that reported
\* success has a row of its own in the dataset, and no two rows share a
\* Review_ID.
C29_ConcurrentSaves ==
    Finished =>
        /\ IdsDistinct(dataset)
        /\ \E f \in [ Successful -> 1..Len(dataset) ] :
              /\ \A s, t \in Successful : f[s] = f[t] => s = t
              /\ \A s \in Successful : Holds(f[s], s)

====
